---------------------------- MODULE Spec2Model ----------------------------
(***************************************************************************)
(* A model of configure.ts, the script-driven build configurator           *)
(* (xmake.js).  One run of the program is the top-level statement sequence *)
(* of the file:                                                            *)
(*                                                                         *)
(*   _load_options_and_toolchains()   (script pass 1)           line 2103  *)
(*   argument loop                                              line 2264  *)
(*   built-in toolchains envs/clang/gcc/mingw                   line 2275  *)
(*   _check_all(): platform, toolchain, options                 line 2854  *)
(*   _load_targets()                  (script pass 2)           line 2889  *)
(*   _generate_configfiles(), _generate_build_file()            line 3052  *)
(*                                                                         *)
(* Representation.  The program keeps every attribute as a JavaScript      *)
(* value: undefined, a boolean, or a string that is read as a blank        *)
(* separated token list (string_to_array).  A value is modelled as a       *)
(* sequence of tokens: "" is << >>, "a b" is <<"a", "b">>, and undefined,  *)
(* true and false are the one-token values Undefined, True and False.      *)
(* Tokens handed to the API are non-empty and hold no blank, so appending  *)
(* `${values} ${value}` is concatenation of token sequences.  Keys of the  *)
(* named maps are the very strings the code builds (`${name}_${key}`).     *)
(***************************************************************************)
EXTENDS Naturals, Sequences, FiniteSets, TLC

VARIABLES
    pc,                          \* position in the top-level statement sequence
    exitcode,                    \* << >> while running, <<code>> once the process ended
    argi,                        \* arguments of argv shifted off so far
    ncalls,                      \* script API calls evaluated so far
    last_call,                   \* the script API call evaluated last
    _loading_options,
    _loading_toolchains,
    _loading_targets,
    maps,                        \* const maps = new Map()
    _xmake_sh_options,
    _xmake_sh_targets,
    _xmake_sh_toolchains,
    _xmake_sh_option_current,
    _xmake_sh_target_current,
    _xmake_sh_toolchain_current,
    _targets_toolkinds,
    _target_toolchain,
    _target_plat,
    _target_arch,
    _target_mode,
    _project_generator,
    _toolchain_try_result,       \* _toolchain_try_<toolname>_result
    argv,                        \* process.argv.slice(2)
    env,                         \* process.env: CC, CXX, AS, LD, AR
    host_ok,                     \* programs of the host whose probe command exits 0
    xmake_js,                    \* the root script, as the API calls its evaluation makes
    configured,                  \* history: the option names given to set_config
    files,                       \* temporary files on disk
    ntmp,                        \* temporary names handed out by _os_tmpfile
    check_queue,                 \* _check_options: options still to check
    probes,                      \* every _check_cxsnippets call and what it did
    console,                     \* the "checking for <option> .. ok|no" lines
    makefile,                    \* the lines written to xmake_sh_makefile so far
    configfiles,                 \* the configfiles written so far: path -> content
    gen_queue,                   \* generation: targets a loop has still to go through
    pure_in,                     \* arguments of a function applied on its own
    pure_out                     \* and the value it returned

phasevars == <<_loading_options, _loading_toolchains, _loading_targets>>
listvars  == <<_xmake_sh_options, _xmake_sh_targets, _xmake_sh_toolchains, _targets_toolkinds>>
scopevars == <<_xmake_sh_option_current, _xmake_sh_target_current, _xmake_sh_toolchain_current>>
platvars  == <<_target_toolchain, _target_plat, _target_arch, _target_mode,
               _project_generator>>
hostvars  == <<argv, env, host_ok, xmake_js>>
outvars   == <<makefile, configfiles, gen_queue, pure_in, pure_out>>
framevars == <<hostvars, configured, outvars>>
probevars == <<_toolchain_try_result, files, ntmp, check_queue, probes, console>>
ctlvars   == <<pc, exitcode, argi>>
vars == <<ctlvars, ncalls, last_call, phasevars, maps, listvars, scopevars,
          platvars, framevars, probevars>>

-----------------------------------------------------------------------------
(* Bounds *)

\* script API calls evaluated in one run, both passes together, in each of
\* the specifications below
MaxCalls          == 2
MaxOptionCalls    == 3
MaxToolchainCalls == 2
MaxTargetCalls    == 3

-----------------------------------------------------------------------------
(* JavaScript values *)

Undefined == <<"#undefined">>
True      == <<"#true">>
False     == <<"#false">>

\* test_z / test_nz: undefined or "" is empty; everything else, the boolean
\* false included, is not.
test_z(str)  == str = Undefined \/ str = << >>
test_nz(str) == ~test_z(str)

\* the same two tests on a name (a plain string; an unset name reads as "")
name_z(str)  == str = ""
name_nz(str) == str # ""

\* JavaScript truthiness of a value: undefined, "" and false are falsy
Truthy(v) == v # Undefined /\ v # << >> /\ v # False

\* value ?? fallback
Coalesce(v, fallback) == IF v = Undefined THEN fallback ELSE v

_is_enabled(value) == value \in {True, <<"true">>, <<"yes">>, <<"y">>}

\* string_to_array: the tokens of a value (none for undefined)
string_to_array(s) == IF s = Undefined THEN << >> ELSE s

-----------------------------------------------------------------------------
(* Strings and paths *)

\* str.startsWith(sub), str.endsWith(sub)
startsWith(str, sub) == Len(str) >= Len(sub) /\ SubSeq(str, 1, Len(sub)) = sub
endsWith(str, sub) ==
    Len(str) >= Len(sub) /\ SubSeq(str, Len(str) - Len(sub) + 1, Len(str)) = sub

\* str.replace(pattern, replacement) with a string pattern: the first
\* occurrence only, looked for from position i on
RECURSIVE replace_from(_, _, _, _)
replace_from(str, pattern, replacement, i) ==
    IF i + Len(pattern) - 1 > Len(str) THEN str
    ELSE IF SubSeq(str, i, i + Len(pattern) - 1) = pattern
    THEN SubSeq(str, 1, i - 1) \o replacement \o SubSeq(str, i + Len(pattern), Len(str))
    ELSE replace_from(str, pattern, replacement, i + 1)

replace(str, pattern, replacement) == replace_from(str, pattern, replacement, 1)

\* string_replace: str.replaceAll(pattern, replacement): the occurrences from
\* position i on are replaced from left to right, and what has been put in
\* is not searched again
RECURSIVE string_replace_from(_, _, _, _)
string_replace_from(str, pattern, replacement, i) ==
    LET At(j)       == SubSeq(str, j, j + Len(pattern) - 1) = pattern
        Places      == i..(Len(str) - Len(pattern) + 1)
        Replaced(j) ==
            string_replace_from(
                SubSeq(str, 1, j - 1) \o replacement \o SubSeq(str, j + Len(pattern), Len(str)),
                pattern, replacement, j + Len(replacement))
    IN  IF \E j \in Places : At(j)
        THEN Replaced(CHOOSE j \in Places : At(j) /\ \A k \in Places : k < j => ~At(k))
        ELSE str

string_replace(str, pattern, replacement) == string_replace_from(str, pattern, replacement, 1)

\* str.split("/"): the components of a path, empty ones included
RECURSIVE PathSplitFrom(_, _, _)
PathSplitFrom(str, i, cur) ==
    IF i > Len(str) THEN <<cur>>
    ELSE IF SubSeq(str, i, i) = "/" THEN <<cur>> \o PathSplitFrom(str, i + 1, "")
    ELSE PathSplitFrom(str, i + 1, cur \o SubSeq(str, i, i))

PathSplit(str) == PathSplitFrom(str, 1, "")

\* the components joined by "/"
RECURSIVE PathJoined(_)
PathJoined(parts) ==
    IF parts = << >> THEN ""
    ELSE IF Len(parts) = 1 THEN parts[1]
    ELSE parts[1] \o "/" \o PathJoined(Tail(parts))

\* normalisation of a component list as node's path module does it: "" and
\* "." are dropped, ".." removes the component before it; above the start of
\* a relative path ".." is kept, above the root it is dropped
RECURSIVE PathNormalized(_, _, _)
PathNormalized(parts, absolute, done) ==
    IF parts = << >> THEN done
    ELSE LET part == Head(parts)
         IN  IF part = "" \/ part = "." THEN PathNormalized(Tail(parts), absolute, done)
             ELSE IF part # ".." THEN PathNormalized(Tail(parts), absolute, Append(done, part))
             ELSE IF done # << >> /\ done[Len(done)] # ".."
             THEN PathNormalized(Tail(parts), absolute, SubSeq(done, 1, Len(done) - 1))
             ELSE IF absolute THEN PathNormalized(Tail(parts), absolute, done)
             ELSE PathNormalized(Tail(parts), absolute, Append(done, ".."))

path_is_absolute(str) == startsWith(str, "/")

\* path.normalize: a trailing slash is kept, the empty relative path is "."
path_normalize(str) ==
    LET absolute == path_is_absolute(str)
        body     == PathJoined(PathNormalized(PathSplit(str), absolute, << >>))
        trailing == IF body # "" /\ endsWith(str, "/") THEN "/" ELSE ""
    IN  IF absolute THEN "/" \o body \o trailing
        ELSE IF body = "" THEN (IF endsWith(str, "/") THEN "./" ELSE ".")
        ELSE body \o trailing

\* the non-empty strings of a sequence
RECURSIVE NonEmpty(_)
NonEmpty(parts) ==
    IF parts = << >> THEN << >>
    ELSE IF Head(parts) = "" THEN NonEmpty(Tail(parts))
    ELSE <<Head(parts)>> \o NonEmpty(Tail(parts))

\* path_join(...parts): path.join of the "path" module
path_join(parts) ==
    IF NonEmpty(parts) = << >> THEN "." ELSE path_normalize(PathJoined(NonEmpty(parts)))

\* the project directory (path.resolve(__dirname)) on the model's host; the
\* program is run from there, so relative paths resolve against it
xmake_sh_projectdir == "/proj"

\* path.resolve(str): the components of the absolute path
PathResolved(str) ==
    IF path_is_absolute(str) THEN PathNormalized(PathSplit(str), TRUE, << >>)
    ELSE PathNormalized(PathSplit(xmake_sh_projectdir) \o PathSplit(str), TRUE, << >>)

RECURSIVE PathRelativeOf(_, _)
PathRelativeOf(from, to) ==
    IF from # << >> /\ to # << >> /\ Head(from) = Head(to)
    THEN PathRelativeOf(Tail(from), Tail(to))
    ELSE [i \in 1..Len(from) |-> ".."] \o to

\* path_relative(source, target): path.relative; "" when both are one place
path_relative(source, target) ==
    PathJoined(PathRelativeOf(PathResolved(source), PathResolved(target)))

\* path_directory: path.dirname
path_directory(str) ==
    LET parts == PathSplit(str)
    IN  IF Len(parts) = 1 THEN "."
        ELSE IF PathJoined(SubSeq(parts, 1, Len(parts) - 1)) = "" THEN "/"
        ELSE PathJoined(SubSeq(parts, 1, Len(parts) - 1))

\* path_filename: path.basename
path_filename(str) == LET parts == NonEmpty(PathSplit(str))
                      IN  IF parts = << >> THEN "" ELSE parts[Len(parts)]

-----------------------------------------------------------------------------
(* The named maps *)

\* maps is a Map of Maps.  A named map is kept as its entries in insertion
\* order, which is the order Map.prototype.keys goes through them.
NoMap == << >>

MapEntry(key, value) == [key |-> key, value |-> value]

\* Map.prototype.has, and the place of the entry of a key the map has
MapHas(map, key)  == \E i \in DOMAIN map : map[i].key = key
EntryOf(map, key) == CHOOSE i \in DOMAIN map : map[i].key = key

\* Map.prototype.set: the value of a key the map has is replaced where it
\* stands, a new key is added at the end
MapSet(map, key, value) ==
    IF MapHas(map, key) THEN [map EXCEPT ![EntryOf(map, key)].value = value]
    ELSE Append(map, MapEntry(key, value))

\* Map.prototype.delete
RECURSIVE MapDelete(_, _)
MapDelete(map, key) ==
    IF map = << >> THEN << >>
    ELSE IF Head(map).key = key THEN Tail(map)
    ELSE <<Head(map)>> \o MapDelete(Tail(map), key)

_map_count(m, name) ==
    IF name \notin DOMAIN m THEN 0
    ELSE Len(m[name])

_map_get(m, name, key) ==
    IF name \notin DOMAIN m THEN Undefined
    ELSE IF ~MapHas(m[name], key) THEN Undefined
    ELSE m[name][EntryOf(m[name], key)].value

_map_has(m, name, key) ==
    IF name \notin DOMAIN m THEN FALSE
    ELSE MapHas(m[name], key)

_map_set(m, name, key, value) ==
    LET map == IF name \in DOMAIN m THEN m[name] ELSE NoMap
    IN  (name :> MapSet(map, key, value)) @@ m

\* a variant that empties the map
_map_remove_clearing(m, name, key) ==
    IF name \notin DOMAIN m THEN m
    ELSE [m EXCEPT ![name] = << >>]

_map_remove(m, name, key) ==
    IF name \notin DOMAIN m THEN m
    ELSE [m EXCEPT ![name] = MapDelete(m[name], key)]

_map_keys(m, name) ==
    IF name \notin DOMAIN m THEN << >>
    ELSE [i \in DOMAIN m[name] |-> m[name][i].key]

-----------------------------------------------------------------------------
(* Control: how a script API call returns *)

\* the two script passes: includes(xmake.js) under _load_options_and_toolchains
\* and under _load_targets
ScriptPcs == {"load_options", "load_targets"}

\* a call returns normally
Ret == UNCHANGED ctlvars

\* raise(msg): process.exit(1); an uncaught Error ends node with code 1 too
raise == pc' = "aborted" /\ exitcode' = <<1>> /\ UNCHANGED argi

\* One script API call.  The root script is JavaScript: what it calls may
\* depend on has_config, is_plat and the like, so the calls of the two passes
\* are chosen independently.
Call(fn, args) ==
    /\ pc \in ScriptPcs
    /\ ncalls' = ncalls + 1
    /\ last_call' = [fn |-> fn, args |-> args]

\* the outcome of a store update that may raise
Done(m)   == [maps |-> m, raised |-> FALSE]
Raised(m) == [maps |-> m, raised |-> TRUE]
Commit(r) == maps' = r.maps /\ (IF r.raised THEN raise ELSE Ret)

-----------------------------------------------------------------------------
(* Option configuration API *)

_has_option(m, name) == _map_has(m, "options", name \o "_name")

_get_option_item(m, name, key) == _map_get(m, "options", name \o "_" \o key)

_set_option_item(m, name, key, value) ==
    IF name_nz(name) THEN Done(_map_set(m, "options", name \o "_" \o key, value))
    ELSE Raised(m)

_add_option_item(m, name, key, value) ==
    IF name_nz(name)
    THEN LET values    == _map_get(m, "options", name \o "_" \o key)
             newValues == IF values = Undefined THEN value ELSE values \o value
         IN  Done(_map_set(m, "options", name \o "_" \o key, newValues))
    ELSE Raised(m)

\* a for-loop of _add_option_item over the arguments
RECURSIVE _add_option_items(_, _, _, _)
_add_option_items(m, name, key, args) ==
    IF args = << >> THEN Done(m)
    ELSE LET r == _add_option_item(m, name, key, <<Head(args)>>)
         IN  IF r.raised THEN r ELSE _add_option_items(r.maps, name, key, Tail(args))

_get_option_value(m, name) ==
    LET value == _get_option_item(m, name, "value")
    IN  IF test_z(value) THEN _get_option_item(m, name, "default") ELSE value

\* a variant that stores the value as the option's default
_set_option_value_as_default(m, name, value) == _set_option_item(m, name, "default", value)

_set_option_value(m, name, value) == _set_option_item(m, name, "value", value)

option(name, description, _default) ==
    /\ Call("option", <<<<name>>, description, _default>>)
    /\ _xmake_sh_option_current' = IF test_nz(description) THEN "" ELSE name
    /\ IF ~_loading_options
       THEN UNCHANGED <<maps, _xmake_sh_options>>
       ELSE /\ _xmake_sh_options' =
                  IF ~_map_has(maps, "options", name \o "_name")
                  THEN Append(_xmake_sh_options, name) ELSE _xmake_sh_options
            /\ maps' = _map_set(_map_set(_map_set(maps,
                           "options", name \o "_name", <<name>>),
                           "options", name \o "_description", description),
                           "options", name \o "_default", _default)
    /\ Ret
    /\ UNCHANGED <<phasevars, _xmake_sh_targets, _xmake_sh_toolchains, _targets_toolkinds,
                   _xmake_sh_target_current, _xmake_sh_toolchain_current,
                   platvars, framevars, probevars>>

option_end ==
    /\ Call("option_end", << >>)
    /\ _xmake_sh_option_current' = ""
    /\ Ret
    /\ UNCHANGED <<phasevars, maps, listvars, _xmake_sh_target_current,
                   _xmake_sh_toolchain_current, platvars, framevars, probevars>>

\* what every API call that only updates the maps leaves alone
MapsOnly == UNCHANGED <<phasevars, listvars, scopevars, platvars, framevars, probevars>>

\* is_config / has_config: pure reads of the option value
is_config(name, value) ==
    IF ~_loading_targets THEN FALSE ELSE _get_option_value(maps, name) = value

has_config(name) ==
    IF ~_loading_targets THEN FALSE ELSE _is_enabled(_get_option_value(maps, name))

set_config(name, value) ==
    /\ Call("set_config", <<<<name>>, value>>)
    /\ Commit(_set_option_value(maps, name, value))
    /\ configured' = configured \cup {name}
    /\ UNCHANGED <<phasevars, listvars, scopevars, platvars, hostvars, outvars, probevars>>

set_showmenu(show) ==
    /\ Call("set_showmenu", <<show>>)
    /\ IF ~_loading_options THEN Commit(Done(maps))
       ELSE Commit(_set_option_item(maps, _xmake_sh_option_current, "showmenu", show))
    /\ MapsOnly

set_description(description) ==
    /\ Call("set_description", <<description>>)
    /\ IF ~_loading_options THEN Commit(Done(maps))
       ELSE Commit(_set_option_item(maps, _xmake_sh_option_current, "description", description))
    /\ MapsOnly

\* add_cfuncs, add_cxxfuncs, add_cincludes, add_cxxincludes, add_ctypes,
\* add_cxxtypes, add_csnippets, add_cxxsnippets: eight functions of one shape,
\* add_<key>(value), each adding its argument to the item <key> of the option
\* in scope.
OptionInputKeys == {"cfuncs", "cxxfuncs", "cincludes", "cxxincludes",
                    "ctypes", "cxxtypes", "csnippets", "cxxsnippets"}

add_option_input(key, value) ==
    /\ Call("add_" \o key, <<value>>)
    /\ IF ~_loading_options THEN Commit(Done(maps))
       ELSE Commit(_add_option_item(maps, _xmake_sh_option_current, key, value))
    /\ MapsOnly

\* add_links / add_syslinks / add_defines while an option is in scope (the
\* else-if branch of each): every argument goes to the option's item
_add_option_args(key, args) ==
    Commit(_add_option_items(maps, _xmake_sh_option_current, key, args))

-----------------------------------------------------------------------------
(* Target configuration API *)

_has_target(m, name) == _map_has(m, "targets", name \o "_name")

_has_target_item(m, name, key) ==
    _map_has(m, "targets", name \o "_" \o key) \/ _map_has(m, "targets", "__root_" \o key)

_get_target_item(m, name, key) ==
    LET values == _map_get(m, "targets", name \o "_" \o key)
    IN  IF _map_has(m, "targets", "__root_" \o key)
        THEN LET root_values == _map_get(m, "targets", "__root_" \o key)
             IN  IF test_nz(values) THEN root_values \o values ELSE root_values
        ELSE values

_set_target_item(m, name, key, value) ==
    IF name_nz(name) THEN _map_set(m, "targets", name \o "_" \o key, value)
    ELSE _map_set(m, "targets", "__root_" \o key, value)

_add_target_item(m, name, key, value) ==
    LET k         == IF name_nz(name) THEN name \o "_" \o key ELSE "__root_" \o key
        values    == _map_get(m, "targets", k)
        newValues == IF values = Undefined THEN value ELSE values \o value
    IN  _map_set(m, "targets", k, newValues)

\* a for-loop of _add_target_item over the arguments that pass `keep`
RECURSIVE _add_target_items(_, _, _, _)
_add_target_items(m, name, key, args) ==
    IF args = << >> THEN m
    ELSE _add_target_items(_add_target_item(m, name, key, <<Head(args)>>),
                           name, key, Tail(args))

target(name) ==
    /\ Call("target", <<<<name>>>>)
    /\ _xmake_sh_target_current' = name
    /\ IF ~_loading_targets
       THEN UNCHANGED <<maps, _xmake_sh_targets>>
       ELSE /\ _xmake_sh_targets' =
                  IF ~_map_has(maps, "targets", name \o "_name")
                  THEN Append(_xmake_sh_targets, name) ELSE _xmake_sh_targets
            /\ maps' = _map_set(maps, "targets", name \o "_name", <<name>>)
    /\ Ret
    /\ UNCHANGED <<phasevars, _xmake_sh_options, _xmake_sh_toolchains, _targets_toolkinds,
                   _xmake_sh_option_current, _xmake_sh_toolchain_current,
                   platvars, framevars, probevars>>

target_end ==
    /\ Call("target_end", << >>)
    /\ _xmake_sh_target_current' = ""
    /\ Ret
    /\ UNCHANGED <<phasevars, maps, listvars, _xmake_sh_option_current,
                   _xmake_sh_toolchain_current, platvars, framevars, probevars>>

TargetKinds == {"binary", "static", "shared"}

\* set_kind without its `if (!_loading_targets) return`
set_kind_in_any_phase(kind) ==
    /\ Call("set_kind", <<<<kind>>>>)
    /\ maps' = _set_target_item(maps, _xmake_sh_target_current, "kind", <<kind>>)
    /\ IF kind = "binary"
       THEN _targets_toolkinds' = Append(_targets_toolkinds, "ld") /\ Ret
       ELSE IF kind = "static"
       THEN _targets_toolkinds' = Append(_targets_toolkinds, "ar") /\ Ret
       ELSE IF kind = "shared"
       THEN _targets_toolkinds' = Append(_targets_toolkinds, "sh") /\ Ret
       ELSE UNCHANGED _targets_toolkinds /\ raise
    /\ UNCHANGED <<phasevars, _xmake_sh_options, _xmake_sh_targets, _xmake_sh_toolchains,
                   scopevars, platvars, framevars, probevars>>

set_kind(kind) ==
    /\ Call("set_kind", <<<<kind>>>>)
    /\ IF ~_loading_targets
       THEN UNCHANGED <<maps, _targets_toolkinds>> /\ Ret
       ELSE /\ maps' = _set_target_item(maps, _xmake_sh_target_current, "kind", <<kind>>)
            /\ IF kind = "binary"
               THEN _targets_toolkinds' = Append(_targets_toolkinds, "ld") /\ Ret
               ELSE IF kind = "static"
               THEN _targets_toolkinds' = Append(_targets_toolkinds, "ar") /\ Ret
               ELSE IF kind = "shared"
               THEN _targets_toolkinds' = Append(_targets_toolkinds, "sh") /\ Ret
               ELSE UNCHANGED _targets_toolkinds /\ raise
    /\ UNCHANGED <<phasevars, _xmake_sh_options, _xmake_sh_targets, _xmake_sh_toolchains,
                   scopevars, platvars, framevars, probevars>>

set_configvar(name, value) ==
    /\ Call("set_configvar", <<<<name>>, value>>)
    /\ IF ~_loading_targets THEN UNCHANGED maps
       ELSE maps' = _add_target_item(
                        _set_target_item(maps, _xmake_sh_target_current,
                                         "configvar_" \o name, value),
                        _xmake_sh_target_current, "configvars", <<name>>)
    /\ Ret
    /\ MapsOnly

add_deps(args) ==
    /\ Call("add_deps", <<args>>)
    /\ IF ~_loading_targets THEN UNCHANGED maps
       ELSE maps' = _add_target_items(maps, _xmake_sh_target_current, "deps", args)
    /\ Ret
    /\ MapsOnly

\* path_sourcekind on the file names the model's scripts use (by extension)
path_sourcekind(file) ==
    IF file \in {"main.cpp", "main.cc"} THEN "cxx"
    ELSE IF file = "main.c" THEN "cc"
    ELSE IF file = "main.m" THEN "mm"
    ELSE IF file = "main.S" THEN "as"
    ELSE ""                                  \* raise("unknown sourcekind for ...")

RECURSIVE SourceKinds(_)
SourceKinds(list) ==
    IF list = << >> THEN << >> ELSE <<path_sourcekind(Head(list))>> \o SourceKinds(Tail(list))

\* add_files with literal names (no "*") of files beside the root script:
\* path_join(scriptdir, file) made relative to the project directory is the
\* name itself.  The first loop of _add_target_filepaths collects the source
\* kinds and raises on an unknown extension; the second adds the files.
add_files(args) ==
    /\ Call("add_files", <<args>>)
    /\ IF ~_loading_targets
       THEN UNCHANGED <<maps, _targets_toolkinds>> /\ Ret
       ELSE IF \E i \in 1..Len(args) : path_sourcekind(args[i]) = ""
       THEN UNCHANGED <<maps, _targets_toolkinds>> /\ raise
       ELSE /\ _targets_toolkinds' = _targets_toolkinds \o SourceKinds(args)
            /\ maps' = _add_target_items(maps, _xmake_sh_target_current, "files", args)
            /\ Ret
    /\ UNCHANGED <<phasevars, _xmake_sh_options, _xmake_sh_targets, _xmake_sh_toolchains,
                   scopevars, platvars, framevars, probevars>>

\* the arguments other than the literal {public}, in argument order
RECURSIVE NonPublic(_)
NonPublic(args) ==
    IF args = << >> THEN << >>
    ELSE IF Head(args) # "{public}" THEN <<Head(args)>> \o NonPublic(Tail(args))
    ELSE NonPublic(Tail(args))

HasPublic(args) == \E i \in 1..Len(args) : args[i] = "{public}"

\* add_defines, add_links, add_syslinks (and add_frameworks): one body, with
\* the item key and the key of its _public list
_add_public_item(key, key_public, args) ==
    IF _loading_targets /\ name_z(_xmake_sh_option_current)
    THEN LET m1 == _add_target_items(maps, _xmake_sh_target_current, key, NonPublic(args))
             m2 == IF HasPublic(args)
                   THEN _add_target_items(m1, _xmake_sh_target_current, key_public,
                                          NonPublic(args))
                   ELSE m1
         IN  Commit(Done(m2))
    ELSE IF _loading_options /\ name_nz(_xmake_sh_option_current)
    THEN _add_option_args(key, args)
    ELSE Commit(Done(maps))

\* the arguments that follow the first {public}
RECURSIVE AfterMarker(_)
AfterMarker(args) ==
    IF args = << >> THEN << >>
    ELSE IF Head(args) = "{public}" THEN NonPublic(Tail(args))
    ELSE AfterMarker(Tail(args))

\* add_defines whose {public} marks only the arguments that follow it
add_defines_public_after_marker(args) ==
    /\ Call("add_defines", <<args>>)
    /\ IF _loading_targets /\ name_z(_xmake_sh_option_current)
       THEN Commit(Done(_add_target_items(
                _add_target_items(maps, _xmake_sh_target_current, "defines",
                                  NonPublic(args)),
                _xmake_sh_target_current, "defines_public", AfterMarker(args))))
       ELSE IF _loading_options /\ name_nz(_xmake_sh_option_current)
       THEN _add_option_args("defines", args)
       ELSE Commit(Done(maps))
    /\ MapsOnly

add_defines(args) ==
    /\ Call("add_defines", <<args>>)
    /\ _add_public_item("defines", "defines_public", args)
    /\ MapsOnly

add_links(args) ==
    /\ Call("add_links", <<args>>)
    /\ _add_public_item("links", "links_public", args)
    /\ MapsOnly

add_syslinks(args) ==
    /\ Call("add_syslinks", <<args>>)
    /\ _add_public_item("syslinks", "syslinks_public", args)
    /\ MapsOnly

\* set_default: the target's default, or the option's when one is in scope
set_default(_default) ==
    /\ Call("set_default", <<_default>>)
    /\ IF _loading_targets /\ name_z(_xmake_sh_option_current)
       THEN Commit(Done(_set_target_item(maps, _xmake_sh_target_current, "default", _default)))
       ELSE IF _loading_options /\ name_nz(_xmake_sh_option_current)
       THEN Commit(_set_option_item(maps, _xmake_sh_option_current, "default", _default))
       ELSE Commit(Done(maps))
    /\ MapsOnly

\* add_udefines: the body of add_defines, but its public list is kept under
\* the key undefines_public
add_udefines(args) ==
    /\ Call("add_udefines", <<args>>)
    /\ _add_public_item("udefines", "undefines_public", args)
    /\ MapsOnly

add_frameworks(args) ==
    /\ Call("add_frameworks", <<args>>)
    /\ _add_public_item("frameworks", "frameworks_public", args)
    /\ MapsOnly

\* the directory of the script being evaluated: the root script lies in the
\* project directory
xmake_sh_scriptdir == xmake_sh_projectdir

\* a path argument as the API stores it: joined to the script directory
\* unless absolute, then made relative to the project directory
ProjectPath(path) ==
    path_relative(xmake_sh_projectdir,
                  IF path_is_absolute(path) THEN path
                  ELSE path_join(<<xmake_sh_scriptdir, path>>))

\* the value `${path}` adds to a list: nothing when the string is empty
TokenOf(str) == IF str = "" THEN << >> ELSE <<str>>

RECURSIVE ProjectPaths(_)
ProjectPaths(args) ==
    IF args = << >> THEN << >>
    ELSE TokenOf(ProjectPath(Head(args))) \o ProjectPaths(Tail(args))

\* add_includedirs and add_linkdirs: one body.  The phase test is made per
\* directory; the public list is filled only while targets are loaded.
_add_public_dirs(key, key_public, args) ==
    LET dirs == ProjectPaths(NonPublic(args))
    IN  IF _loading_targets /\ name_z(_xmake_sh_option_current)
        THEN LET m1 == _add_target_items(maps, _xmake_sh_target_current, key, dirs)
                 m2 == IF HasPublic(args)
                       THEN _add_target_items(m1, _xmake_sh_target_current, key_public, dirs)
                       ELSE m1
             IN  Commit(Done(m2))
        ELSE IF _loading_options /\ name_nz(_xmake_sh_option_current)
        THEN _add_option_args(key, dirs)
        ELSE Commit(Done(maps))

add_includedirs(args) ==
    /\ Call("add_includedirs", <<args>>)
    /\ _add_public_dirs("includedirs", "includedirs_public", args)
    /\ MapsOnly

add_linkdirs(args) ==
    /\ Call("add_linkdirs", <<args>>)
    /\ _add_public_dirs("linkdirs", "linkdirs_public", args)
    /\ MapsOnly

\* set_filename, set_basename, set_extension, set_prefixname, set_strip,
\* set_symbols: `if (!_loading_targets) return` and one _set_target_item
_set_target_scalar(fn, key, value) ==
    /\ Call(fn, <<value>>)
    /\ IF ~_loading_targets THEN UNCHANGED maps
       ELSE maps' = _set_target_item(maps, _xmake_sh_target_current, key, value)
    /\ Ret
    /\ MapsOnly

set_filename(filename)     == _set_target_scalar("set_filename", "filename", filename)
set_basename(basename)     == _set_target_scalar("set_basename", "basename", basename)
set_extension(extension)   == _set_target_scalar("set_extension", "extension", extension)
set_prefixname(prefixname) == _set_target_scalar("set_prefixname", "prefixname", prefixname)
set_strip(strip)           == _set_target_scalar("set_strip", "strip", strip)
set_symbols(symbols)       == _set_target_scalar("set_symbols", "symbols", symbols)

\* add_ldflags: `if (!_loading_targets) return` and one _add_target_item for
\* each flag
add_ldflags(flags) ==
    /\ Call("add_ldflags", <<flags>>)
    /\ IF ~_loading_targets THEN UNCHANGED maps
       ELSE maps' = _add_target_items(maps, _xmake_sh_target_current, "ldflags", flags)
    /\ Ret
    /\ MapsOnly

\* add_rpathdirs: the same, each directory stored as a path from the project
\* directory
add_rpathdirs(dirs) ==
    /\ Call("add_rpathdirs", <<dirs>>)
    /\ IF ~_loading_targets THEN UNCHANGED maps
       ELSE maps' = _add_target_items(maps, _xmake_sh_target_current, "rpathdirs",
                                      ProjectPaths(dirs))
    /\ Ret
    /\ MapsOnly

\* set_targetdir: _set_target_filepath("targetdir", dir)
set_targetdir(dir) ==
    /\ Call("set_targetdir", <<<<dir>>>>)
    /\ IF ~_loading_targets THEN UNCHANGED maps
       ELSE maps' = _set_target_item(maps, _xmake_sh_target_current, "targetdir",
                                     TokenOf(ProjectPath(dir)))
    /\ Ret
    /\ MapsOnly

\* set_languages, set_warnings, set_optimizes: the rest arguments are stored
\* as the array they are; string_to_array hands an array back as it is, so the
\* array is the token list.  (An array of one element prints as that element:
\* scripts that set one of these at root scope and in a target give one value
\* to each call.)
_set_target_list(fn, key, args) ==
    /\ Call(fn, <<args>>)
    /\ IF _loading_targets /\ name_z(_xmake_sh_option_current)
       THEN Commit(Done(_set_target_item(maps, _xmake_sh_target_current, key, args)))
       ELSE IF _loading_options /\ name_nz(_xmake_sh_option_current)
       THEN Commit(_set_option_item(maps, _xmake_sh_option_current, key, args))
       ELSE Commit(Done(maps))
    /\ MapsOnly

set_languages(languages) == _set_target_list("set_languages", "languages", languages)
set_warnings(warnings)   == _set_target_list("set_warnings", "warnings", warnings)
set_optimizes(optimizes) == _set_target_list("set_optimizes", "optimizes", optimizes)

\* set_version: the build date pattern is undefined when it is left out
set_version(version, version_build) ==
    /\ Call("set_version", <<version, version_build>>)
    /\ IF ~_loading_targets THEN UNCHANGED maps
       ELSE maps' = _set_target_item(
                        _set_target_item(maps, _xmake_sh_target_current, "version", version),
                        _xmake_sh_target_current, "version_build", version_build)
    /\ Ret
    /\ MapsOnly

\* add_configfiles with literal names: _add_target_filepaths("configfiles", ...)
add_configfiles(args) ==
    /\ Call("add_configfiles", <<args>>)
    /\ IF ~_loading_targets THEN UNCHANGED maps
       ELSE maps' = _add_target_items(maps, _xmake_sh_target_current, "configfiles",
                                      ProjectPaths(args))
    /\ Ret
    /\ MapsOnly

\* set_configdir: _set_target_filepath("configdir", dir)
set_configdir(dir) ==
    /\ Call("set_configdir", <<<<dir>>>>)
    /\ IF ~_loading_targets THEN UNCHANGED maps
       ELSE maps' = _set_target_item(maps, _xmake_sh_target_current, "configdir",
                                     TokenOf(ProjectPath(dir)))
    /\ Ret
    /\ MapsOnly

\* set_installdir: _set_target_filepath("installdir", dir)
set_installdir(dir) ==
    /\ Call("set_installdir", <<<<dir>>>>)
    /\ IF ~_loading_targets THEN UNCHANGED maps
       ELSE maps' = _set_target_item(maps, _xmake_sh_target_current, "installdir",
                                     TokenOf(ProjectPath(dir)))
    /\ Ret
    /\ MapsOnly

\* str.split(sep) for a separator of one character
RECURSIVE StringSplitFrom(_, _, _, _)
StringSplitFrom(str, sep, i, cur) ==
    IF i > Len(str) THEN <<cur>>
    ELSE IF SubSeq(str, i, i) = sep THEN <<cur>> \o StringSplitFrom(str, sep, i + 1, "")
    ELSE StringSplitFrom(str, sep, i + 1, cur \o SubSeq(str, i, i))

string_split(str, sep) == StringSplitFrom(str, sep, 1, "")

string_contains(str, substr) ==
    \E i \in 1..Len(str) :
        i + Len(substr) - 1 <= Len(str) /\ SubSeq(str, i, i + Len(substr) - 1) = substr

\* str.replace(/\/$/, "")
WithoutTrailingSlash(str) ==
    IF endsWith(str, "/") THEN SubSeq(str, 1, Len(str) - 1) ELSE str

\* the root directory of a file pattern, "src/foo/(*.h)" -> "src/foo", made
\* relative to the project directory; "" for a pattern without "("
InstallRootdir(filepattern) ==
    IF ~string_contains(filepattern, "(") THEN ""
    ELSE WithoutTrailingSlash(
             ProjectPath(WithoutTrailingSlash(string_split(filepattern, "(")[1])))

\* the entry src:root:prefix:filename of a file pattern without "*"
InstallPath(filepattern, prefixdir, filename) ==
    ProjectPath(string_replace(string_replace(filepattern, "(", ""), ")", ""))
        \o ":" \o InstallRootdir(filepattern) \o ":" \o prefixdir \o ":" \o filename

\* add_installfiles and add_headerfiles: `if (!_loading_targets) return` and
\* _add_target_installpaths; an argument left out is ""
_add_target_installpaths(fn, key, filepattern, prefixdir, filename) ==
    /\ Call(fn, <<<<filepattern, prefixdir, filename>>>>)
    /\ IF ~_loading_targets THEN UNCHANGED maps
       ELSE maps' = _add_target_item(maps, _xmake_sh_target_current, key,
                                     <<InstallPath(filepattern, prefixdir, filename)>>)
    /\ Ret
    /\ MapsOnly

add_installfiles(filepattern, prefixdir, filename) ==
    _add_target_installpaths("add_installfiles", "installfiles",
                             filepattern, prefixdir, filename)

add_headerfiles(filepattern, prefixdir, filename) ==
    _add_target_installpaths("add_headerfiles", "headerfiles",
                             filepattern, prefixdir, filename)

-----------------------------------------------------------------------------
(* Toolchain configuration API *)

_has_toolchain(m, name) == _map_has(m, "toolchains", name \o "_name")

_get_toolchain_item(m, name, key) == _map_get(m, "toolchains", name \o "_" \o key)

_set_toolchain_item(m, name, key, value) ==
    IF name_nz(name) THEN Done(_map_set(m, "toolchains", name \o "_" \o key, value))
    ELSE Raised(m)

_get_toolchain_toolset(m, name, kind) == _get_toolchain_item(m, name, "toolset_" \o kind)

_set_toolchain_toolset(m, name, kind, programs) ==
    _set_toolchain_item(m, name, "toolset_" \o kind, programs)

\* The toolchain API is also what the program itself calls to declare its
\* built-in toolchains, so its three functions are state transformers on
\* [maps, toolchains, current, raised]; the script-callable actions apply them.
TcState == [maps |-> maps, toolchains |-> _xmake_sh_toolchains,
            current |-> _xmake_sh_toolchain_current, raised |-> FALSE]

toolchain_do(st, name) ==
    IF st.raised THEN st
    ELSE IF ~_loading_toolchains THEN [st EXCEPT !.current = name]
    ELSE [st EXCEPT !.current = name,
                    !.toolchains = Append(st.toolchains, name),
                    !.maps = _map_set(st.maps, "toolchains", name \o "_name", <<name>>)]

toolchain_end_do(st) == IF st.raised THEN st ELSE [st EXCEPT !.current = ""]

\* set_toolset(kind, ...programs): program idx goes to toolset_<kind> (idx 0)
\* or toolset_<kind>_<idx>
RECURSIVE _set_toolset_from(_, _, _, _)
_set_toolset_from(st, kind, programs, idx) ==
    IF programs = << >> \/ st.raised THEN st
    ELSE LET key == IF idx # 0 THEN kind \o "_" \o ToString(idx) ELSE kind
             r   == _set_toolchain_toolset(st.maps, st.current, key, Head(programs))
         IN  _set_toolset_from([st EXCEPT !.maps = r.maps, !.raised = r.raised],
                               kind, Tail(programs), idx + 1)

set_toolset_do(st, kind, programs) ==
    IF st.raised \/ ~_loading_toolchains THEN st
    ELSE _set_toolset_from(st, kind, programs, 0)

TcCommit(st) ==
    /\ maps' = st.maps
    /\ _xmake_sh_toolchains' = st.toolchains
    /\ _xmake_sh_toolchain_current' = st.current
    /\ IF st.raised THEN raise ELSE Ret

TcOnly == UNCHANGED <<phasevars, _xmake_sh_options, _xmake_sh_targets, _targets_toolkinds,
                      _xmake_sh_option_current, _xmake_sh_target_current,
                      platvars, framevars, probevars>>

toolchain(name) ==
    /\ Call("toolchain", <<<<name>>>>)
    /\ TcCommit(toolchain_do(TcState, name))
    /\ TcOnly

toolchain_end ==
    /\ Call("toolchain_end", << >>)
    /\ TcCommit(toolchain_end_do(TcState))
    /\ TcOnly

\* programs: a sequence of program values, <<"gcc">> or << >> for ""
set_toolset(kind, programs) ==
    /\ Call("set_toolset", <<<<kind>>>> \o programs)
    /\ TcCommit(set_toolset_do(TcState, kind, programs))
    /\ TcOnly

-----------------------------------------------------------------------------
(* The host: programs, files, subprocesses *)

\* the single token of a one-token value, "" for the empty value
StrOf(v) == IF v = << >> \/ v = Undefined THEN "" ELSE v[1]

\* path_toolname on the program names of the model: the built-in toolchains'
\* programs, and programs the environment variables may name by path
GccPrograms     == {"gcc", "/opt/a/gcc", "/opt/b/gcc",
                    "x86_64-w64-mingw32-gcc", "i686-w64-mingw32-gcc"}
GxxPrograms     == {"g++", "/opt/a/g++", "x86_64-w64-mingw32-g++", "i686-w64-mingw32-g++"}
ClangPrograms   == {"clang"}
ClangxxPrograms == {"clang++"}
ArPrograms      == {"ar", "/opt/a/ar", "x86_64-w64-mingw32-ar", "i686-w64-mingw32-ar"}

path_toolname(path) ==
    IF path \in GccPrograms THEN "gcc"
    ELSE IF path \in GxxPrograms THEN "gxx"
    ELSE IF path \in ClangxxPrograms THEN "clangxx"
    ELSE IF path \in ClangPrograms THEN "clang"
    ELSE IF path \in ArPrograms THEN "ar"
    ELSE ""                                  \* throw new Error(`unknown tool ${path}`)

\* the exit code of the probe command of a program on this host
ExitOf(program) == IF program \in host_ok THEN 0 ELSE 1

\* _os_runv: execaSync throws when the command exits non-zero (no
\* {reject: false} is passed and nothing catches, unlike _os_iorunv), so the
\* `ok !== 0` branch returning false is never reached.
_os_runv(exit) == IF exit = 0 THEN "true" ELSE "throw"

\* _os_tmpfile: tmp.fileSync() creates a fresh file and returns its name
TmpName(n) == "/tmp/tmp-" \o ToString(n)

\* _os_tryrm
_os_tryrm(fs, path) == fs \ {path}

-----------------------------------------------------------------------------
(* Toolchain detection.  A detection state d is                            *)
(* [maps, cache, files, ntmp, threw, ok]: the maps, the four                *)
(* _toolchain_try_<toolname>_result variables, the files on disk, whether   *)
(* an exception is propagating, and the value the last function returned.   *)

ToolKinds == <<"cc", "cxx", "as", "mm", "mxx", "ld", "ar", "sh">>

\* const indices = [0, 1, 2, 3, 4, 5]
MaxToolsetIndex == 5

DetectState == [maps |-> maps, cache |-> _toolchain_try_result, files |-> files,
                ntmp |-> ntmp, threw |-> FALSE, ok |-> FALSE]

\* _toolchain_try_gcc, _gxx, _clang, _clangxx: one body each, with its own
\* result variable, indexed here by the toolname
_toolchain_try_cached(d, toolname, program) ==
    IF d.cache[toolname] = "ok" THEN [d EXCEPT !.ok = TRUE]
    ELSE IF d.cache[toolname] = "no" THEN [d EXCEPT !.ok = FALSE]
    ELSE LET r == _os_runv(ExitOf(program))
         IN  IF r = "throw" THEN [d EXCEPT !.threw = TRUE, !.ok = FALSE]
             ELSE IF r = "true" THEN [d EXCEPT !.cache[toolname] = "ok", !.ok = TRUE]
             ELSE [d EXCEPT !.cache[toolname] = "no", !.ok = FALSE]

_toolchain_try_ar(d, program) ==
    LET tmpfile     == TmpName(d.ntmp + 1)
        objectfile  == tmpfile \o ".o"
        libraryfile == tmpfile \o ".a"
        written     == d.files \cup {tmpfile, objectfile}
        r           == _os_runv(ExitOf(program))
    IN  IF r = "throw"
        THEN [d EXCEPT !.ntmp = @ + 1, !.files = written, !.threw = TRUE, !.ok = FALSE]
        ELSE LET linked == IF r = "true" THEN written \cup {libraryfile} ELSE written
             IN  [d EXCEPT !.ntmp = @ + 1,
                           !.files = _os_tryrm(_os_tryrm(linked, objectfile), libraryfile),
                           !.ok = (r = "true")]

_toolchain_try_program(d, program) ==
    LET toolname == path_toolname(program)
    IN  IF toolname = "" THEN [d EXCEPT !.threw = TRUE, !.ok = FALSE]
        ELSE IF toolname = "ar" THEN _toolchain_try_ar(d, program)
        ELSE _toolchain_try_cached(d, toolname, program)

RECURSIVE _toolchain_try_toolset_from(_, _, _, _)
_toolchain_try_toolset_from(d, tcname, kind, idx) ==
    IF idx > MaxToolsetIndex THEN [d EXCEPT !.ok = FALSE]
    ELSE LET key     == IF idx # 0 THEN kind \o "_" \o ToString(idx) ELSE kind
             program == _get_toolchain_toolset(d.maps, tcname, key)
         IN  IF test_nz(program)
             THEN LET r == _toolchain_try_program(d, StrOf(program))
                  IN  IF r.threw THEN r
                      ELSE IF r.ok
                      THEN [r EXCEPT !.maps =
                               _set_toolchain_toolset(r.maps, tcname, kind, program).maps]
                      ELSE _toolchain_try_toolset_from(r, tcname, kind, idx + 1)
             ELSE _toolchain_try_toolset_from(d, tcname, kind, idx + 1)

_toolchain_try_toolset(d, tcname, kind) ==
    _toolchain_try_toolset_from(d, tcname, kind, 0)

\* _toolchain_try: the && chain over the eight kinds
RECURSIVE _toolchain_try_kinds(_, _, _)
_toolchain_try_kinds(d, tcname, kinds) ==
    IF kinds = << >> THEN [d EXCEPT !.ok = TRUE]
    ELSE LET r == _toolchain_try_toolset(d, tcname, Head(kinds))
         IN  IF r.threw \/ ~r.ok THEN r
             ELSE _toolchain_try_kinds(r, tcname, Tail(kinds))

_toolchain_try(d, tcname) == _toolchain_try_kinds(d, tcname, ToolKinds)

\* a variant that takes the make program for granted
_toolchain_detect_make_unchecked(d) == [d EXCEPT !.ok = TRUE]

\* _toolchain_detect_backend for the gmake generator: the make program is run
\* with --version
_toolchain_detect_make(d) ==
    IF _os_runv(ExitOf("make")) = "true" THEN [d EXCEPT !.ok = TRUE]
    ELSE [d EXCEPT !.threw = TRUE, !.ok = FALSE]

\* the for-loop of _toolchain_detect: the first tcname that passes is
\* taken; `found` is the new _target_toolchain
RECURSIVE _toolchain_detect_loop(_, _)
_toolchain_detect_loop(d, toolchains) ==
    IF toolchains = << >> THEN [d |-> d, found |-> << >>]
    ELSE LET r == _toolchain_try(d, Head(toolchains))
         IN  IF r.threw THEN [d |-> r, found |-> << >>]
             ELSE IF r.ok THEN [d |-> r, found |-> <<Head(toolchains)>>]
             ELSE _toolchain_detect_loop(r, Tail(toolchains))

is_plat(plat) == _target_plat = plat
is_arch(arch) == _target_arch = arch

\* and for the ninja generator the ninja program
_toolchain_detect_ninja(d) ==
    IF _os_runv(ExitOf("ninja")) = "true" THEN [d EXCEPT !.ok = TRUE]
    ELSE [d EXCEPT !.threw = TRUE, !.ok = FALSE]

\* no backend is looked for when the generator is neither of the two
_toolchain_detect_backend(d) ==
    IF _project_generator = "gmake" THEN _toolchain_detect_make(d)
    ELSE IF _project_generator = "ninja" THEN _toolchain_detect_ninja(d)
    ELSE d

_toolchain_detect(d, toolchains) ==
    LET b    == _toolchain_detect_backend(d)
        list == IF test_z(toolchains)
                THEN IF is_plat("macosx") THEN <<"envs", "clang", "gcc">>
                     ELSE IF is_plat("mingw")
                     THEN IF is_arch("i386") THEN <<"i686_w64_mingw32">>
                          ELSE <<"x86_64_w64_mingw32">>
                     ELSE <<"envs", "gcc", "clang">>
                ELSE toolchains
    IN  IF b.threw THEN [d |-> b, found |-> << >>]
        ELSE _toolchain_detect_loop(b, list)

-----------------------------------------------------------------------------
(* The option prober.  A probing state d is                                *)
(* [maps, files, ntmp, probes, threw, ok].                                  *)

CompilerToolnames == {"gcc", "gxx", "clang", "clangxx"}

ExitCodes == {0, 1}

ProbeState == [maps |-> maps, files |-> files, ntmp |-> ntmp, probes |-> probes,
               threw |-> FALSE, ok |-> FALSE]

\* One call of _check_cxsnippets, as the probes log keeps it
\* (exit: the exit code of the last command it ran, 0 if it ran none)
ProbeRecord(name, kind, tmpfile, compiled, linked, exit, threw, ok) ==
    [name |-> name, kind |-> kind, tmpfile |-> tmpfile, compiled |-> compiled,
     linked |-> linked, exit |-> exit, threw |-> threw, ok |-> ok]

\* _check_cxsnippets(name, kind); cexit and lexit are the exit codes the
\* compile and the link command end with on this host.  The option has no
\* languages/warnings/optimizes/undefines/linkdirs/cxflags/ldflags item in the
\* model, so of the flag loops only those over links and syslinks see values.
_check_cxsnippets(d, name, kind, cexit, lexit) ==
    LET funcs      == _get_option_item(d.maps, name, kind \o "funcs")
        includes   == _get_option_item(d.maps, name, kind \o "includes")
        types      == _get_option_item(d.maps, name, kind \o "types")
        snippets   == _get_option_item(d.maps, name, kind \o "snippets")
        links      == _get_option_item(d.maps, name, "links")
        syslinks   == _get_option_item(d.maps, name, "syslinks")
        \* links += `${syslinks}` leaves a non-empty string
        haslinks   == test_nz(links) \/ test_nz(syslinks)
        extension  == IF kind = "cxx" THEN ".cpp" ELSE ".c"
        sourcekind == IF kind = "cxx" THEN "cxx" ELSE "cc"
        tmpfile    == TmpName(d.ntmp + 1)
        sourcefile == tmpfile \o extension
        objectfile == tmpfile \o ".o"
        binaryfile == tmpfile \o ".bin"
        written    == d.files \cup {tmpfile, sourcefile}
        cctool     == path_toolname(StrOf(_get_toolchain_toolset(d.maps,
                                              StrOf(_target_toolchain), sourcekind)))
        ldtool     == path_toolname(StrOf(_get_toolchain_toolset(d.maps,
                                              StrOf(_target_toolchain), "ld")))
        Thrown(fs, compiled, linked) ==
            [d EXCEPT !.ntmp = @ + 1, !.files = fs, !.threw = TRUE, !.ok = FALSE,
                      !.probes = Append(@, ProbeRecord(name, kind, tmpfile, compiled,
                                            linked,
                                            IF linked THEN lexit
                                            ELSE IF compiled THEN cexit ELSE 0,
                                            TRUE, FALSE))]
        Returned(fs, linked, ok) ==
            [d EXCEPT !.ntmp = @ + 1,
                      !.files = _os_tryrm(_os_tryrm(_os_tryrm(fs, sourcefile),
                                                    objectfile), binaryfile),
                      !.ok = ok,
                      !.probes = Append(@, ProbeRecord(name, kind, tmpfile, TRUE,
                                                       linked, 0, FALSE, ok))]
    IN  IF test_z(funcs) /\ test_z(includes) /\ test_z(types) /\ test_z(snippets)
        THEN [d EXCEPT !.ok = FALSE,                                  \* return false
                       !.probes = Append(@, ProbeRecord(name, kind, "", FALSE, FALSE,
                                                        0, FALSE, FALSE))]
        ELSE IF cctool \notin CompilerToolnames
        THEN Thrown(written, FALSE, FALSE)             \* unknown tool / toolname
        ELSE IF _os_runv(cexit) = "throw"
        THEN Thrown(written, TRUE, FALSE)
        ELSE IF ~haslinks
        THEN Returned(written \cup {objectfile}, FALSE, TRUE)
        ELSE IF ldtool \notin CompilerToolnames
        THEN Thrown(written \cup {objectfile}, TRUE, FALSE)
        ELSE IF _os_runv(lexit) = "throw"
        THEN Thrown(written \cup {objectfile}, TRUE, TRUE)
        ELSE Returned(written \cup {objectfile, binaryfile}, TRUE, TRUE)

_check_csnippets(d, name, cexit, lexit)   == _check_cxsnippets(d, name, "c", cexit, lexit)
_check_cxxsnippets(d, name, cexit, lexit) == _check_cxsnippets(d, name, "cxx", cexit, lexit)

\* _check_csnippets(name) && _check_cxxsnippets(name)
_check_option_do(d, name, x) ==
    LET r == _check_csnippets(d, name, x[1], x[2])
    IN  IF r.threw \/ ~r.ok THEN r
        ELSE _check_cxxsnippets(r, name, x[3], x[4])

\* _option_need_checking without its test of the default
_option_need_checking_ignoring_default(m, name) ==
    \/ \E key \in OptionInputKeys : Truthy(_get_option_item(m, name, key))
    \/ Truthy(_get_option_item(m, name, "links"))
    \/ Truthy(_get_option_item(m, name, "syslinks"))

\* _option_need_checking that does not look at links and syslinks
_option_need_checking_without_links(m, name) ==
    LET _default == Coalesce(_get_option_item(m, name, "default"), << >>)
    IN  IF test_nz(_default) THEN FALSE
        ELSE \E key \in OptionInputKeys : Truthy(_get_option_item(m, name, key))

_option_need_checking(m, name) ==
    LET _default == Coalesce(_get_option_item(m, name, "default"), << >>)
    IN  IF test_nz(_default) THEN FALSE
        ELSE \/ \E key \in OptionInputKeys : Truthy(_get_option_item(m, name, key))
             \/ Truthy(_get_option_item(m, name, "links"))
             \/ Truthy(_get_option_item(m, name, "syslinks"))

RECURSIVE _get_options_for_checking_in(_, _)
_get_options_for_checking_in(m, options) ==
    IF options = << >> THEN << >>
    ELSE LET name     == Head(options)
             showmenu == _get_option_item(m, name, "showmenu")
             rest     == _get_options_for_checking_in(m, Tail(options))
         IN  IF ~Truthy(showmenu) /\ _option_need_checking(m, name)
             THEN <<name>> \o rest ELSE rest

_get_options_for_checking(m) == _get_options_for_checking_in(m, _xmake_sh_options)

-----------------------------------------------------------------------------
(* Flag translation *)

\* what a function that may throw hands back: its value, or the message of
\* the Error it threw
Flag(flag)  == [flag |-> flag, error |-> ""]
Throw(msg)  == [flag |-> "", error |-> msg]

CLanguages   == {"c89", "gnu89", "c99", "gnu99", "c11", "gnu11", "c17", "gnu17"}
CxxVersions  == {"98", "11", "14", "17", "1z", "2a", "20"}

\* the languages switch for the toolkinds cc / mm
_language_flag_cc(value) ==
    IF value = "ansi" THEN "-ansi"
    ELSE IF value \in CLanguages THEN "-std=" \o value
    ELSE ""

\* the C++ languages switch with the gnu aliases taken for the plain standard
_language_flag_cxx_gnu_as_plain(value) ==
    IF \E v \in CxxVersions : value \in {"cxx" \o v, "c++" \o v, "gnuxx" \o v, "gnu++" \o v}
    THEN Flag("-std=c++" \o (CHOOSE v \in CxxVersions :
                                value \in {"cxx" \o v, "c++" \o v, "gnuxx" \o v, "gnu++" \o v}))
    ELSE IF startsWith(value, "cxx") \/ startsWith(value, "c++")
    THEN Throw("unknown language value(" \o value \o ")!")
    ELSE Flag("")

\* the languages switch for the toolkinds cxx / mxx: the cases, then the
\* default branch with its two throws
_language_flag_cxx(value) ==
    IF \E v \in CxxVersions : value \in {"cxx" \o v, "c++" \o v}
    THEN Flag("-std=c++" \o (CHOOSE v \in CxxVersions : value \in {"cxx" \o v, "c++" \o v}))
    ELSE IF \E v \in CxxVersions : value \in {"gnuxx" \o v, "gnu++" \o v}
    THEN Flag("-std=gnu++" \o
              (CHOOSE v \in CxxVersions : value \in {"gnuxx" \o v, "gnu++" \o v}))
    ELSE IF startsWith(value, "cxx") \/ startsWith(value, "c++")
    THEN Throw("unknown language value(" \o value \o ")!")
    ELSE Flag("")

_get_abstract_flag_for_gcc_clang(toolkind, toolname, itemname, value) ==
    IF itemname = "defines" THEN Flag("-D" \o string_replace(value, "\"", "\\\""))
    ELSE IF itemname = "udefines" THEN Flag("-U" \o value)
    ELSE IF itemname = "includedirs" THEN Flag("-I" \o value)
    ELSE IF itemname = "linkdirs" THEN Flag("-L" \o value)
    ELSE IF itemname = "links" THEN Flag("-l" \o value)
    ELSE IF itemname = "syslinks" THEN Flag("-l" \o value)
    ELSE IF itemname = "frameworks" THEN Flag("-framework " \o value)
    ELSE IF itemname = "frameworkdirs" THEN Flag("-F" \o value)
    ELSE IF itemname = "rpathdirs"
    THEN IF toolname \in {"gcc", "gxx"}
         \* the replacement pattern "$$$$ORIGIN" inserts $$ORIGIN
         THEN Flag("-Wl,-rpath='" \o replace(value, "@loader_path", "$$ORIGIN") \o "'")
         ELSE IF toolname \in {"clang", "clangxx"}
         THEN Flag("-Xlinker -rpath -Xlinker " \o replace(value, "$ORIGIN", "@loader_path"))
         ELSE Flag("")
    ELSE IF itemname = "symbols"
    THEN IF value = "debug" THEN Flag("-g")
         ELSE IF value = "hidden" THEN Flag("-fvisibility=hidden")
         ELSE Flag("")
    ELSE IF itemname = "strip"
    THEN IF value = "debug" THEN Flag("-Wl,-S")
         ELSE IF value = "all"
         THEN (IF is_plat("macosx") THEN Flag("-Wl,-x") ELSE Flag("-s"))
         ELSE Flag("")
    ELSE IF itemname = "warnings"
    THEN IF value \in {"all", "more", "less"} THEN Flag("-Wall")
         ELSE IF value = "allextra" THEN Flag("-Wall -Wextra")
         ELSE IF value = "error" THEN Flag("-Werror")
         ELSE IF value = "everything" THEN Flag("-Wall -Wextra")
         ELSE IF value = "none" THEN Flag("-w")
         ELSE Flag("")
    ELSE IF itemname = "optimizes"
    THEN IF value = "fast" THEN Flag("-O1")
         ELSE IF value = "faster" THEN Flag("-O2")
         ELSE IF value = "fastest" THEN Flag("-O3")
         ELSE IF value = "smallest"
         THEN (IF toolname \in {"clang", "clangxx"} THEN Flag("-Oz") ELSE Flag("-Os"))
         ELSE IF value = "aggressive" THEN Flag("-Ofast")
         ELSE IF value = "none" THEN Flag("-O0")
         ELSE Flag("")
    ELSE IF itemname = "languages"
    THEN IF toolkind \in {"cc", "mm"} THEN Flag(_language_flag_cc(value))
         ELSE IF toolkind \in {"cxx", "mxx"} THEN _language_flag_cxx(value)
         ELSE Flag("")
    ELSE Throw("unknown itemname(" \o itemname \o ")!")

\* the flags of a list of values: the list of the non-empty flags (the code
\* keeps them in one string, each after a blank), or the first Error thrown
FlagList(flags) == [flags |-> flags, error |-> ""]
Thrown(msg)     == [flags |-> << >>, error |-> msg]

RECURSIVE _get_abstract_flags_of(_, _, _, _, _)
_get_abstract_flags_of(toolkind, toolname, itemname, values, flags) ==
    LET Rest(r) ==
            IF r.error # "" THEN Thrown(r.error)
            ELSE _get_abstract_flags_of(toolkind, toolname, itemname, Tail(values),
                                        IF r.flag # "" THEN Append(flags, r.flag) ELSE flags)
    IN  IF values = << >> THEN FlagList(flags)
        ELSE IF toolname \notin {"gcc", "gxx", "clang", "clangxx"}
        THEN Thrown("unknown toolname(" \o toolname \o ")!")
        ELSE Rest(_get_abstract_flag_for_gcc_clang(toolkind, toolname, itemname,
                                                   Head(values)))

_get_abstract_flags(toolkind, toolname, itemname, values) ==
    _get_abstract_flags_of(toolkind, toolname, itemname, string_to_array(values), << >>)

-----------------------------------------------------------------------------
(* Target graph resolver *)

\* `${value}`: a value printed into a string
RECURSIVE JoinBlank(_)
JoinBlank(tokens) ==
    IF tokens = << >> THEN ""
    ELSE IF Len(tokens) = 1 THEN tokens[1]
    ELSE tokens[1] \o " " \o JoinBlank(Tail(tokens))

ValueString(v) ==
    IF v = Undefined THEN "undefined"
    ELSE IF v = True THEN "true"
    ELSE IF v = False THEN "false"
    ELSE JoinBlank(v)

\* let xmake_sh_buildir = "build" (runs without --buildir)
xmake_sh_buildir == "build"

_is_target_default(m, name) ==
    IF _has_target_item(m, name, "default")
    THEN _is_enabled(_get_target_item(m, name, "default"))
    ELSE TRUE

_get_target_basename(m, name) ==
    ValueString(Coalesce(_get_target_item(m, name, "basename"), <<name>>))

\* the extension without the mingw branch
_get_target_extension_not_for_mingw(m, name) ==
    IF _has_target_item(m, name, "extension")
    THEN ValueString(_get_target_item(m, name, "extension"))
    ELSE IF _get_target_item(m, name, "kind") = <<"static">> THEN ".a"
    ELSE IF _get_target_item(m, name, "kind") = <<"shared">> THEN ".so"
    ELSE ""

_get_target_extension(m, name) ==
    LET kind == _get_target_item(m, name, "kind")
    IN  IF _has_target_item(m, name, "extension")
        THEN ValueString(_get_target_item(m, name, "extension"))
        ELSE IF is_plat("mingw")
        THEN IF kind = <<"binary">> THEN ".exe"
             ELSE IF kind = <<"static">> THEN ".a"
             ELSE IF kind = <<"shared">> THEN ".dll"
             ELSE ""
        ELSE IF kind = <<"static">> THEN ".a"
        ELSE IF kind = <<"shared">> THEN ".so"
        ELSE ""

_get_target_prefixname(m, name) ==
    LET kind == _get_target_item(m, name, "kind")
    IN  IF _has_target_item(m, name, "prefixname")
        THEN ValueString(_get_target_item(m, name, "prefixname"))
        ELSE IF kind = <<"static">> THEN "lib"
        ELSE IF kind = <<"shared">> THEN "lib"
        ELSE ""

_get_target_filename(m, name) ==
    LET filename == _get_target_item(m, name, "filename")
    IN  IF test_z(filename)
        THEN _get_target_prefixname(m, name) \o _get_target_basename(m, name)
                 \o _get_target_extension(m, name)
        ELSE ValueString(filename)

\* the target directory without the mode in its default
_get_targetdir_without_mode(m, name) ==
    IF test_z(_get_target_item(m, name, "targetdir"))
    THEN path_join(<<xmake_sh_buildir, _target_plat, _target_arch>>)
    ELSE ValueString(_get_target_item(m, name, "targetdir"))

_get_targetdir(m, name) ==
    LET targetdir == _get_target_item(m, name, "targetdir")
    IN  IF test_z(targetdir)
        THEN path_join(<<xmake_sh_buildir, _target_plat, _target_arch, _target_mode>>)
        ELSE ValueString(targetdir)

_get_target_objectdir(m, name) ==
    LET objectdir == _get_target_item(m, name, "objectdir")
    IN  IF test_z(objectdir)
        THEN path_join(<<xmake_sh_buildir, ".objs", name,
                         _target_plat, _target_arch, _target_mode>>)
        ELSE ValueString(objectdir)

_get_target_file(m, name) ==
    path_join(<<_get_targetdir(m, name), _get_target_filename(m, name)>>)

\* a variant that keeps of each word the first occurrence
RECURSIVE _dedup_forward(_)
_dedup_forward(words) ==
    IF words = << >> THEN << >>
    ELSE LET front == SubSeq(words, 1, Len(words) - 1)
             last  == words[Len(words)]
         IN  IF \E i \in DOMAIN front : front[i] = last
             THEN _dedup_forward(front)
             ELSE _dedup_forward(front) \o <<last>>

\* _dedup_reverse: of each word the last occurrence is kept
RECURSIVE _dedup_reverse(_)
_dedup_reverse(words) ==
    IF words = << >> THEN << >>
    ELSE IF \E i \in 2..Len(words) : words[i] = Head(words)
    THEN _dedup_reverse(Tail(words))
    ELSE <<Head(words)>> \o _dedup_reverse(Tail(words))

\* the nested calls the engine's stack has room for, and what a call made
\* beyond them ends in: RangeError, Maximum call stack size exceeded
MaxCallDepth == 4
StackOverflow == <<"#RangeError">>

IsLibraryKind(kind) == kind = <<"static">> \/ kind = <<"shared">>

\* _get_target_librarydeps_impl, called at the given nesting depth; its
\* for-loop over deps is the second operator
RECURSIVE _get_target_librarydeps_impl(_, _, _)
RECURSIVE _get_target_librarydeps_loop(_, _, _, _)
_get_target_librarydeps_impl(m, name, depth) ==
    IF depth > MaxCallDepth THEN StackOverflow
    ELSE _get_target_librarydeps_loop(m, string_to_array(_get_target_item(m, name, "deps")),
                                      depth, << >>)

_get_target_librarydeps_loop(m, deps, depth, librarydeps) ==
    LET Rest(dep_librarydeps) ==
            IF dep_librarydeps = StackOverflow THEN StackOverflow
            ELSE _get_target_librarydeps_loop(m, Tail(deps), depth,
                     librarydeps \o <<Head(deps)>> \o dep_librarydeps)
    IN  IF deps = << >> THEN librarydeps
        ELSE IF IsLibraryKind(_get_target_item(m, Head(deps), "kind"))
        THEN Rest(_get_target_librarydeps_impl(m, Head(deps), depth + 1))
        ELSE _get_target_librarydeps_loop(m, Tail(deps), depth, librarydeps)

\* _get_target_librarydeps: the list, the store with the list remembered in
\* it, and the Error thrown if any
_get_target_librarydeps(m, name) ==
    LET Remembered(librarydeps) ==
            [maps |-> _set_target_item(m, name, "librarydeps",
                          IF test_nz(librarydeps) THEN librarydeps ELSE <<"__none__">>),
             librarydeps |-> librarydeps, error |-> ""]
        Computed(computed) ==
            IF computed = StackOverflow
            THEN [maps |-> m, librarydeps |-> << >>,
                  error |-> "Maximum call stack size exceeded"]
            ELSE Remembered(_dedup_reverse(computed))
        Stored(stored) ==
            IF test_z(stored) /\ stored # <<"__none__">>
            THEN Computed(_get_target_librarydeps_impl(m, name, 1))
            ELSE [maps |-> m,
                  librarydeps |-> IF stored = <<"__none__">> THEN << >> ELSE stored,
                  error |-> ""]
    IN  Stored(_get_target_item(m, name, "librarydeps"))

_get_target_sourcefiles(m, name) == _get_target_item(m, name, "files")

_get_target_objectfile(m, name, sourcefile) ==
    path_join(<<_get_target_objectdir(m, name),
                sourcefile \o (IF is_plat("mingw") THEN ".obj" ELSE ".o")>>)

RECURSIVE _get_target_objectfiles_of(_, _, _)
_get_target_objectfiles_of(m, name, sourcefiles) ==
    IF sourcefiles = << >> THEN << >>
    ELSE <<_get_target_objectfile(m, name, Head(sourcefiles))>>
             \o _get_target_objectfiles_of(m, name, Tail(sourcefiles))

_get_target_objectfiles(m, name) ==
    _get_target_objectfiles_of(m, name,
        string_to_array(Coalesce(_get_target_sourcefiles(m, name), << >>)))

-----------------------------------------------------------------------------
(* Flags of a target *)

\* what the flag functions of a target hand back: the flags, the store (the
\* library deps are remembered in it), and the message of the Error thrown
TargetFlags(m, flags) == [maps |-> m, flags |-> flags, error |-> ""]
TargetThrow(m, msg)   == [maps |-> m, flags |-> << >>, error |-> msg]

\* the reduce with the library deps' own values in the place of their
\* <itemname>_public values
RECURSIVE _public_values_of_all_values(_, _, _, _)
_public_values_of_all_values(m, deps, itemname, values) ==
    LET Rest(depvalues) ==
            _public_values_of_all_values(m, Tail(deps), itemname,
                IF IsLibraryKind(_get_target_item(m, Head(deps), "kind")) /\ test_nz(depvalues)
                THEN values \o depvalues ELSE values)
    IN  IF deps = << >> THEN values
        ELSE Rest(_get_target_item(m, Head(deps), itemname))

\* the reduce of _get_target_abstract_flags: the <itemname>_public values of
\* the static / shared library deps, after the values so far
RECURSIVE _public_values_of(_, _, _, _)
_public_values_of(m, deps, itemname, values) ==
    LET Rest(depvalues) ==
            _public_values_of(m, Tail(deps), itemname,
                IF IsLibraryKind(_get_target_item(m, Head(deps), "kind")) /\ test_nz(depvalues)
                THEN values \o depvalues ELSE values)
    IN  IF deps = << >> THEN values
        ELSE Rest(_get_target_item(m, Head(deps), itemname \o "_public"))

_get_target_abstract_flags(m, name, toolkind, toolname, itemname, values) ==
    LET Translated(mm, f) ==
            IF f.error # "" THEN TargetThrow(mm, f.error) ELSE TargetFlags(mm, f.flags)
        OfDeps(r) ==
            IF r.error # "" THEN TargetThrow(m, r.error)
            ELSE Translated(r.maps,
                     _get_abstract_flags(toolkind, toolname, itemname,
                         _public_values_of(r.maps, r.librarydeps, itemname,
                             string_to_array(Coalesce(_get_target_item(m, name, itemname),
                                                      << >>)))))
    IN  IF Coalesce(values, << >>) = << >>
        THEN OfDeps(_get_target_librarydeps(m, name))
        ELSE Translated(m, _get_abstract_flags(toolkind, toolname, itemname, values))

_get_target_toolchain_flags_for_ar == "-cr"

_get_target_toolchain_flags_for_gcc(m, name, toolkind) ==
    IF _get_target_item(m, name, "kind") = <<"shared">> /\ toolkind = "sh"
    THEN "-shared -fPIC"
    ELSE IF is_arch("i386") THEN "-m32"
    ELSE ""

_get_target_toolchain_flags_for_clang(m, name, toolkind) ==
    IF _get_target_item(m, name, "kind") = <<"shared">> /\ toolkind = "sh"
    THEN "-shared -fPIC"
    ELSE IF is_arch("i386") THEN "-m32"
    ELSE "-Qunused-arguments"

_get_target_toolchain_flags(m, name, toolkind, toolname) ==
    IF toolname \in {"gcc", "gxx"}
    THEN Flag(_get_target_toolchain_flags_for_gcc(m, name, toolkind))
    ELSE IF toolname \in {"clang", "clangxx"}
    THEN Flag(_get_target_toolchain_flags_for_clang(m, name, toolkind))
    ELSE IF toolname = "ar" THEN Flag(_get_target_toolchain_flags_for_ar)
    ELSE Throw("unknown toolname(" \o toolname \o ")!")

_get_flagname(toolkind) ==
    IF toolkind = "cc" THEN "cflags"
    ELSE IF toolkind = "cxx" THEN "cxxflags"
    ELSE IF toolkind = "as" THEN "asflags"
    ELSE IF toolkind = "mm" THEN "mflags"
    ELSE IF toolkind = "mxx" THEN "mxxflags"
    ELSE IF toolkind = "ar" THEN "arflags"
    ELSE IF toolkind = "sh" THEN "shflags"
    ELSE IF toolkind = "ld" THEN "ldflags"
    ELSE ""                                  \* throw new Error("unknown toolkind(...)!")

\* the toolname of the program the detected toolchain has for a toolkind
\* ("" where path_toolname throws)
TargetToolname(m, toolkind) ==
    path_toolname(StrOf(_get_toolchain_toolset(m, StrOf(_target_toolchain), toolkind)))

\* `${result} ${flags}` when test_nz(flags)
WithFlags(result, flags) == IF flags = "" THEN result ELSE Append(result, flags)

\* the raw flags of an item, appended when there are any
WithRawFlags(m, name, flagname, result) ==
    LET Raw(flags) == IF test_nz(flags) THEN Append(result, ValueString(flags)) ELSE result
    IN  Raw(_get_target_item(m, name, flagname))

\* a forEach of _get_target_abstract_flags over item names
RECURSIVE _abstract_flags_of_items(_, _, _, _, _, _)
_abstract_flags_of_items(m, name, toolkind, toolname, itemnames, result) ==
    LET Rest(r) ==
            IF r.error # "" THEN TargetThrow(r.maps, r.error)
            ELSE _abstract_flags_of_items(r.maps, name, toolkind, toolname,
                                          Tail(itemnames), result \o r.flags)
    IN  IF itemnames = << >> THEN TargetFlags(m, result)
        ELSE Rest(_get_target_abstract_flags(m, name, toolkind, toolname,
                                             Head(itemnames), Undefined))

CompilerItemnames == <<"symbols", "optimizes", "warnings", "languages", "defines",
                       "undefines", "includedirs", "frameworkdirs", "frameworks">>

LinkerItemnames == <<"strip", "frameworkdirs", "linkdir", "links", "rpathdirs",
                     "frameworks", "syslinks">>

_get_target_compiler_flags(m, name, toolkind) ==
    LET Raw(mm, flagname, raw) ==
            IF flagname \in {"cflags", "cxxflags"}
            THEN TargetFlags(mm, WithRawFlags(mm, name, "cxflags", raw))
            ELSE IF flagname \in {"mflags", "mxxflags"}
            THEN TargetFlags(mm, WithRawFlags(mm, name, "mxflags", raw))
            ELSE TargetFlags(mm, raw)
        Abstract(r) ==
            IF r.error # "" THEN r
            ELSE Raw(r.maps, _get_flagname(toolkind),
                     WithRawFlags(r.maps, name, _get_flagname(toolkind), r.flags))
        Toolchain(toolname, tf) ==
            IF tf.error # "" THEN TargetThrow(m, tf.error)
            ELSE Abstract(_abstract_flags_of_items(m, name, toolkind, toolname,
                              CompilerItemnames, WithFlags(<< >>, tf.flag)))
        Tool(toolname) ==
            IF toolname = "" THEN TargetThrow(m, "unknown tool")
            ELSE Toolchain(toolname,
                           _get_target_toolchain_flags(m, name, toolkind, toolname))
    IN  Tool(TargetToolname(m, toolkind))

\* the forEach of _get_target_linker_flags over the library deps: for a
\* shared dep its rpath flag, for every library dep its -L and -l flags
RECURSIVE _linker_flags_of_deps(_, _, _, _, _, _)
_linker_flags_of_deps(m, name, toolkind, toolname, deps, result) ==
    LET Rpathdir(subdir) ==
            IF subdir # "" THEN path_join(<<"@loader_path", subdir>>) ELSE "@loader_path"
        Rest(rpathdirs_flags, linkdirs_flags, links_flags) ==
            IF linkdirs_flags.error # "" THEN TargetThrow(m, linkdirs_flags.error)
            ELSE IF links_flags.error # "" THEN TargetThrow(m, links_flags.error)
            ELSE IF rpathdirs_flags.error # "" THEN TargetThrow(m, rpathdirs_flags.error)
            ELSE _linker_flags_of_deps(m, name, toolkind, toolname, Tail(deps),
                     result \o rpathdirs_flags.flags \o linkdirs_flags.flags
                            \o links_flags.flags)
        Dep(dep, dep_kind, dep_targetdir) ==
            IF ~IsLibraryKind(dep_kind)
            THEN _linker_flags_of_deps(m, name, toolkind, toolname, Tail(deps), result)
            ELSE Rest(IF dep_kind = <<"shared">>
                      THEN _get_target_abstract_flags(m, dep, toolkind, toolname, "rpathdirs",
                               <<Rpathdir(path_relative(_get_targetdir(m, name),
                                                        dep_targetdir))>>)
                      ELSE TargetFlags(m, << >>),
                      _get_target_abstract_flags(m, dep, toolkind, toolname, "linkdirs",
                                                 TokenOf(dep_targetdir)),
                      _get_target_abstract_flags(m, dep, toolkind, toolname, "links",
                                                 TokenOf(_get_target_basename(m, dep))))
    IN  IF deps = << >> THEN TargetFlags(m, result)
        ELSE Dep(Head(deps), _get_target_item(m, Head(deps), "kind"),
                 _get_targetdir(m, Head(deps)))

_get_target_linker_flags(m, name, toolkind) ==
    LET Abstract(r) ==
            IF r.error # "" THEN r
            ELSE TargetFlags(r.maps,
                     WithRawFlags(r.maps, name, _get_flagname(toolkind), r.flags))
        OfDeps(toolname, d) ==
            IF d.error # "" THEN d
            ELSE Abstract(_abstract_flags_of_items(d.maps, name, toolkind, toolname,
                                                   LinkerItemnames, d.flags))
        Deps(toolname, tf, deps) ==
            IF deps.error # "" THEN TargetThrow(m, deps.error)
            ELSE OfDeps(toolname,
                        _linker_flags_of_deps(deps.maps, name, toolkind, toolname,
                                              deps.librarydeps, WithFlags(<< >>, tf.flag)))
        Toolchain(toolname, tf) ==
            IF tf.error # "" THEN TargetThrow(m, tf.error)
            ELSE Deps(toolname, tf, _get_target_librarydeps(m, name))
        Tool(toolname) ==
            IF toolname = "" THEN TargetThrow(m, "unknown tool")
            ELSE Toolchain(toolname,
                           _get_target_toolchain_flags(m, name, toolkind, toolname))
    IN  Tool(TargetToolname(m, toolkind))

_get_target_archiver_flags(m, name, toolkind) ==
    LET Toolchain(tf) ==
            IF tf.error # "" THEN TargetThrow(m, tf.error)
            ELSE TargetFlags(m, WithRawFlags(m, name, _get_flagname(toolkind),
                                             WithFlags(<< >>, tf.flag)))
        Tool(toolname) ==
            IF toolname = "" THEN TargetThrow(m, "unknown tool")
            ELSE Toolchain(_get_target_toolchain_flags(m, name, toolkind, toolname))
    IN  Tool(TargetToolname(m, toolkind))

_get_target_flags(m, name, toolkind) ==
    IF toolkind \in {"sh", "ld"} THEN _get_target_linker_flags(m, name, toolkind)
    ELSE IF toolkind = "ar" THEN _get_target_archiver_flags(m, name, toolkind)
    ELSE _get_target_compiler_flags(m, name, toolkind)

-----------------------------------------------------------------------------
(* The top-level statement sequence *)

\* what a top-level statement that is no script API call leaves alone
NoCall == UNCHANGED <<ncalls, last_call>>

\* _load_options_and_toolchains without its third assignment: the targets
\* flag keeps its initial value
_load_options_and_toolchains_keeps_targets_flag ==
    /\ pc = "start"
    /\ _loading_options' = TRUE
    /\ _loading_toolchains' = TRUE
    /\ pc' = "load_options"
    /\ UNCHANGED <<_loading_targets, ncalls, last_call>>
    /\ UNCHANGED <<exitcode, argi, maps, listvars, scopevars, platvars, framevars, probevars>>

\* line 2103: the flags of pass 1 are set and the root script is included
_load_options_and_toolchains ==
    /\ pc = "start"
    /\ _loading_options' = TRUE
    /\ _loading_toolchains' = TRUE
    /\ _loading_targets' = FALSE
    /\ pc' = "load_options"
    /\ NoCall
    /\ UNCHANGED <<exitcode, argi, maps, listvars, scopevars, platvars, framevars, probevars>>

\* includes(file) returns: the script has been evaluated to its end
script_end ==
    /\ pc \in ScriptPcs
    /\ pc' = IF pc = "load_options" THEN "parse_args" ELSE "generate"
    /\ NoCall
    /\ UNCHANGED <<exitcode, argi, phasevars, maps, listvars, scopevars, platvars,
                   framevars, probevars>>

\* An argument "--<name>=<value>" is kept as its two parts, which is what
\* _parse_argument_name and _parse_argument_value take it apart into.
\* --make= and --ninja= name the backend program to look for; the command
\* lines of the specifications leave them out and the default program is
\* looked for.  Arguments whose variables the model does not keep:
OtherBuiltinArgs == {"verbose", "diagnosis", "prefix", "bindir", "libdir",
                     "includedir", "buildir"}

\* one turn of the while loop over args: args.shift() and _handle_option
_handle_option ==
    /\ pc = "parse_args"
    /\ argi < Len(argv)
    /\ NoCall
    /\ LET name  == argv[argi + 1].name
           value == argv[argi + 1].value
           Next1 == pc' = pc /\ exitcode' = exitcode /\ argi' = argi + 1
       IN  IF name = "help"                           \* _show_usage: process.exit(1)
           THEN /\ pc' = "exited" /\ exitcode' = <<1>> /\ argi' = argi + 1
                /\ UNCHANGED <<maps, platvars>>
           ELSE IF name = "version"                   \* _show_version: process.exit(2)
           THEN /\ pc' = "exited" /\ exitcode' = <<2>> /\ argi' = argi + 1
                /\ UNCHANGED <<maps, platvars>>
           ELSE IF name = "plat"
           THEN /\ _target_plat' = StrOf(value) /\ Next1
                /\ UNCHANGED <<maps, _target_toolchain, _target_arch, _target_mode,
                             _project_generator>>
           ELSE IF name = "arch"
           THEN /\ _target_arch' = StrOf(value) /\ Next1
                /\ UNCHANGED <<maps, _target_toolchain, _target_plat, _target_mode,
                             _project_generator>>
           ELSE IF name = "mode"
           THEN /\ _target_mode' = StrOf(value) /\ Next1
                /\ UNCHANGED <<maps, _target_toolchain, _target_plat, _target_arch,
                             _project_generator>>
           ELSE IF name = "toolchain"
           THEN /\ _target_toolchain' = value /\ Next1
                /\ UNCHANGED <<maps, _target_plat, _target_arch, _target_mode,
                             _project_generator>>
           ELSE IF name = "generator"
           THEN /\ _project_generator' = StrOf(value) /\ Next1
                /\ UNCHANGED <<maps, _target_toolchain, _target_plat, _target_arch,
                               _target_mode>>
           ELSE IF name \in OtherBuiltinArgs
           THEN Next1 /\ UNCHANGED <<maps, platvars>>
           ELSE IF _has_option(maps, name)
           THEN /\ maps' = _set_option_value(maps, name, value).maps /\ Next1
                /\ UNCHANGED platvars
           ELSE raise /\ UNCHANGED <<maps, platvars>>  \* Unknown option
    /\ UNCHANGED <<phasevars, listvars, scopevars, framevars, probevars>>

\* the value of `${X}` for an environment variable read with ?? ""
EnvValue(x) == IF x = "" THEN << >> ELSE <<x>>

EnvsToolsets ==
    << <<"as",  <<EnvValue(env.CC), EnvValue(env.CXX), EnvValue(env.AS)>> >>,
       <<"cc",  <<EnvValue(env.CC)>> >>,
       <<"cxx", <<EnvValue(env.CC), EnvValue(env.CXX)>> >>,
       <<"mm",  <<EnvValue(env.CC), EnvValue(env.CXX)>> >>,
       <<"mxx", <<EnvValue(env.CC), EnvValue(env.CXX)>> >>,
       <<"ld",  <<EnvValue(env.CXX), EnvValue(env.CC), EnvValue(env.LD)>> >>,
       <<"sh",  <<EnvValue(env.CXX), EnvValue(env.CC), EnvValue(env.LD)>> >>,
       <<"ar",  <<EnvValue(env.AR)>> >> >>

\* the clang, gcc and the two mingw toolchains: cc is the C driver, cxx the
\* C++ driver, ars the archivers
BuiltinToolsets(cc, cxx, ars) ==
    << <<"as",  << <<cc>> >> >>,
       <<"cc",  << <<cc>> >> >>,
       <<"cxx", << <<cc>>, <<cxx>> >> >>,
       <<"mm",  << <<cc>> >> >>,
       <<"mxx", << <<cc>>, <<cxx>> >> >>,
       <<"ld",  << <<cxx>>, <<cc>> >> >>,
       <<"sh",  << <<cxx>>, <<cc>> >> >>,
       <<"ar",  ars>> >>

RECURSIVE _set_toolsets(_, _)
_set_toolsets(st, toolsets) ==
    IF toolsets = << >> THEN st
    ELSE _set_toolsets(set_toolset_do(st, Head(toolsets)[1], Head(toolsets)[2]),
                       Tail(toolsets))

\* toolchain(name) { set_toolset ... } toolchain_end()
_declare_toolchain(st, name, toolsets) ==
    toolchain_end_do(_set_toolsets(toolchain_do(st, name), toolsets))

\* lines 2275-2351: the five built-in toolchains are declared after pass 1,
\* one top-level block each
_declare(name, toolsets, next) ==
    /\ NoCall
    /\ LET st == _declare_toolchain(TcState, name, toolsets)
       IN  /\ maps' = st.maps
           /\ _xmake_sh_toolchains' = st.toolchains
           /\ _xmake_sh_toolchain_current' = st.current
    /\ pc' = next
    /\ UNCHANGED <<exitcode, argi, phasevars, _xmake_sh_options, _xmake_sh_targets,
                   _targets_toolkinds, _xmake_sh_option_current, _xmake_sh_target_current,
                   platvars, framevars, probevars>>

_declare_envs ==
    /\ pc = "parse_args"
    /\ argi = Len(argv)                              \* args.length === 0
    /\ _declare("envs", EnvsToolsets, "declare_clang")

_declare_clang ==
    /\ pc = "declare_clang"
    /\ _declare("clang", BuiltinToolsets("clang", "clang++", << <<"ar">> >>), "declare_gcc")

_declare_gcc ==
    /\ pc = "declare_gcc"
    /\ _declare("gcc", BuiltinToolsets("gcc", "g++", << <<"ar">> >>), "declare_mingw64")

_declare_x86_64_w64_mingw32 ==
    /\ pc = "declare_mingw64"
    /\ _declare("x86_64_w64_mingw32",
                BuiltinToolsets("x86_64-w64-mingw32-gcc", "x86_64-w64-mingw32-g++",
                                << <<"x86_64-w64-mingw32-ar">>, <<"ar">> >>),
                "declare_mingw32")

_declare_i686_w64_mingw32 ==
    /\ pc = "declare_mingw32"
    /\ _declare("i686_w64_mingw32",
                BuiltinToolsets("i686-w64-mingw32-gcc", "i686-w64-mingw32-g++",
                                << <<"i686-w64-mingw32-ar">>, <<"ar">> >>),
                "check_platform")

_check_platform ==
    /\ pc = "check_platform"
    /\ NoCall
    /\ _target_plat' = IF _target_plat # "" THEN _target_plat ELSE env.os_host
    /\ _target_arch' = IF _target_arch # "" THEN _target_arch ELSE env.os_arch
    /\ _target_mode' = IF _target_mode # "" THEN _target_mode ELSE "release"
    /\ pc' = "check_toolchain"
    /\ UNCHANGED <<exitcode, argi, phasevars, maps, listvars, scopevars, _target_toolchain,
                   _project_generator, framevars, probevars>>

_check_toolchain ==
    /\ pc = "check_toolchain"
    /\ NoCall
    /\ LET r == _toolchain_detect(DetectState, _target_toolchain)
       IN  /\ maps' = r.d.maps
           /\ _toolchain_try_result' = r.d.cache
           /\ files' = r.d.files
           /\ ntmp' = r.d.ntmp
           /\ _target_toolchain' = r.found
           /\ IF r.d.threw \/ test_z(r.found)     \* "toolchain not found!"
              THEN raise
              ELSE pc' = "check_options" /\ UNCHANGED <<exitcode, argi>>
    /\ UNCHANGED <<phasevars, listvars, scopevars, _target_plat, _target_arch, _target_mode,
                   _project_generator, framevars, check_queue, probes, console>>

\* _check_options up to its loop: the options to check
_check_options ==
    /\ pc = "check_options"
    /\ NoCall
    /\ check_queue' = _get_options_for_checking(maps)
    /\ pc' = "checking"
    /\ UNCHANGED <<exitcode, argi, phasevars, maps, listvars, scopevars, platvars, framevars,
                   _toolchain_try_result, files, ntmp, probes, console>>

\* one turn of the loop of _check_options
_check_option ==
    /\ pc = "checking"
    /\ check_queue # << >>
    /\ NoCall
    /\ \E x \in ExitCodes \X ExitCodes \X ExitCodes \X ExitCodes :
        LET name == Head(check_queue)
            r    == _check_option_do(ProbeState, name, x)
        IN  /\ files' = r.files
            /\ ntmp' = r.ntmp
            /\ probes' = r.probes
            /\ IF r.threw
               THEN raise /\ UNCHANGED <<maps, console, check_queue>>
               ELSE /\ maps' = _set_option_value(r.maps, name,
                                                 IF r.ok THEN True ELSE False).maps
                    /\ console' = Append(console, <<name, IF r.ok THEN "ok" ELSE "no">>)
                    /\ check_queue' = Tail(check_queue)
                    /\ UNCHANGED ctlvars
    /\ UNCHANGED <<phasevars, listvars, scopevars, platvars, framevars, _toolchain_try_result>>

\* line 2889: the flags of pass 2 are set and the root script is included again
_load_targets ==
    /\ pc = "checking"
    /\ check_queue = << >>
    /\ NoCall
    /\ _loading_options' = FALSE
    /\ _loading_toolchains' = FALSE
    /\ _loading_targets' = TRUE
    /\ _xmake_sh_option_current' = ""
    /\ _xmake_sh_target_current' = ""
    /\ _xmake_sh_toolchain_current' = ""
    /\ pc' = "load_targets"
    /\ UNCHANGED <<exitcode, argi, maps, listvars, platvars, framevars, probevars>>

-----------------------------------------------------------------------------
(* Generation of the Makefile *)

\* One line appended to the Makefile: the section that wrote it, what stands
\* before the "=" or ":" (nothing for a recipe line) and the words after it.
\* The empty lines that end the sections are left out.
Line(sec, lhs, rhs) == [sec |-> sec, lhs |-> lhs, rhs |-> rhs]

\* an uncaught Error: node prints it and exits with code 1
throw(msg) == raise /\ console' = Append(console, <<"Error", msg>>)

\* what the generation steps leave alone besides the Makefile and the store
GenFrame == UNCHANGED <<phasevars, listvars, scopevars, platvars, hostvars, configured,
                        pure_in, pure_out, configfiles, _toolchain_try_result, files, ntmp,
                        check_queue, probes>>

\* a file system without files
NoFile == [path \in {} |-> ""]

\* the templates of the project: the files on disk that add_configfiles names
Templates ==
    [ p \in {"config.h.in", "src/conf.h.in", "ver.txt.in"} |->
        IF p = "config.h.in"
        THEN "#pragma once\n${define HAS_PTHREAD}\n${define FOO}\n#define V ${VERSION_MAJOR}\n"
        ELSE IF p = "src/conf.h.in"
        THEN "${define A} ${define B}\n// ${OS} ${A} ${VERSION}.${VERSION_BUILD} ${GIT_TAG}\n"
        ELSE "${VERSION_MAJOR}.${VERSION_MINOR}.${VERSION_ALTER}+${VERSION_BUILD}\n" ]

\* the local times a run may read: dayjs().format("YYYYMMDDTHHmm")
Clock == {"20240101T0000", "20240101T0001"}

\* _os_date: the format argument is not used
_os_date(format, now) == now

\* string_toupper, on the platform names
string_toupper(str) ==
    IF str = "linux" THEN "LINUX"
    ELSE IF str = "macosx" THEN "MACOSX"
    ELSE IF str = "windows" THEN "WINDOWS"
    ELSE str

\* path_basename: path.parse(str).name, the file name without its last
\* extension
RECURSIVE LastDot(_, _)
LastDot(str, i) ==
    IF i <= 1 THEN 0 ELSE IF SubSeq(str, i, i) = "." THEN i ELSE LastDot(str, i - 1)

path_basename(str) ==
    LET WithoutExtension(name) ==
            IF LastDot(name, Len(name)) = 0 THEN name
            ELSE SubSeq(name, 1, LastDot(name, Len(name)) - 1)
    IN  WithoutExtension(path_filename(str))

_replace_configvar_define(name, value) ==
    IF test_z(value)
    THEN <<"${define " \o name \o "}", "/*#undef " \o name \o "*/">>
    ELSE IF value = <<"1">> \/ value = <<"true">>
    THEN <<"${define " \o name \o "}", "#define " \o name \o " 1">>
    ELSE IF value = <<"0">> \/ value = <<"false">>
    THEN <<"${define " \o name \o "}", "/*#define " \o name \o " 0*/">>
    ELSE <<"${define " \o name \o "}", "#define " \o name \o " " \o ValueString(value)>>

_replace_configvar_value(name, value) == <<"${" \o name \o "}", ValueString(value)>>

\* _io_replace_file: content.replaceAll for each pattern in turn
RECURSIVE _io_replace_file(_, _)
_io_replace_file(content, patterns) ==
    IF patterns = << >> THEN content
    ELSE _io_replace_file(string_replace(content, Head(patterns)[1], Head(patterns)[2]),
                          Tail(patterns))

\* content.replaceAll(new RegExp("${define (.*)}", "g"), "/*#undef $1*/"): in
\* the pattern "$" is not escaped, so it is the end-of-input assertion, and
\* "{define " has to follow the end of the input: the pattern matches nowhere
\* and replaceAll returns the content as it is
_replace_remaining_defines(content) == content

\* _os_iorunv("git", ...): the standard output of git, "" when git fails.
\* The commit date is asked of a program called "log": it is never there.
GitOutput ==
    [ GIT_TAG |-> "v1", GIT_TAG_LONG |-> "v1-0-gabc", GIT_BRANCH |-> "main",
      GIT_COMMIT |-> "abc", GIT_COMMIT_LONG |-> "abcdef", GIT_COMMIT_DATE |-> "" ]

GitNames == <<"GIT_TAG", "GIT_TAG_LONG", "GIT_BRANCH", "GIT_COMMIT", "GIT_COMMIT_LONG",
              "GIT_COMMIT_DATE">>

RECURSIVE GitPatterns(_)
GitPatterns(names) ==
    IF names = << >> THEN << >>
    ELSE (IF "git" \in host_ok /\ GitOutput[Head(names)] # ""
          THEN <<_replace_configvar_value(Head(names), <<GitOutput[Head(names)]>>)>>
          ELSE << >>)
             \o GitPatterns(Tail(names))

\* the patterns of the configvars of a target
RECURSIVE ConfigvarPatterns(_, _, _)
ConfigvarPatterns(m, tname, names) ==
    IF names = << >> THEN << >>
    ELSE <<_replace_configvar_define(Head(names),
                                     _get_target_item(m, tname, "configvar_" \o Head(names))),
           _replace_configvar_value(Head(names),
                                    _get_target_item(m, tname, "configvar_" \o Head(names)))>>
             \o ConfigvarPatterns(m, tname, Tail(names))

\* VersionPatterns without the test of version_build: the date is put in
\* for ${VERSION_BUILD} also when the target has no build date pattern
VersionPatterns_always_build(version, version_build, now) ==
    LET Part(parts, i) == IF i <= Len(parts) THEN TokenOf(parts[i]) ELSE << >>
        Pattern(name, value) ==
            IF test_nz(value) THEN <<_replace_configvar_value(name, value)>> ELSE << >>
        Parts(parts) ==
            Pattern("VERSION_MAJOR", Part(parts, 1))
                \o Pattern("VERSION_MINOR", Part(parts, 2))
                \o Pattern("VERSION_ALTER", Part(parts, 3))
    IN  Pattern("VERSION", version)
            \o Parts(string_split(ValueString(version), "."))
            \o Pattern("VERSION_BUILD", <<_os_date(version_build, now)>>)

\* the patterns of the version of a target
VersionPatterns(version, version_build, now) ==
    LET Part(parts, i) == IF i <= Len(parts) THEN TokenOf(parts[i]) ELSE << >>
        Pattern(name, value) ==
            IF test_nz(value) THEN <<_replace_configvar_value(name, value)>> ELSE << >>
        Parts(parts) ==
            Pattern("VERSION_MAJOR", Part(parts, 1))
                \o Pattern("VERSION_MINOR", Part(parts, 2))
                \o Pattern("VERSION_ALTER", Part(parts, 3))
    IN  Pattern("VERSION", version)
            \o Parts(string_split(ValueString(version), "."))
            \o (IF test_nz(version_build)
                THEN Pattern("VERSION_BUILD", <<_os_date(version_build, now)>>)
                ELSE << >>)

\* the patterns _generate_configfile collects for a template: OS, the
\* version, git, the configvars of the target
ConfigfilePatterns(m, tname, content, now) ==
    <<_replace_configvar_value("OS",
          <<string_toupper(IF is_plat("mingw") THEN "windows" ELSE _target_plat)>>)>>
        \o VersionPatterns(_get_target_item(m, tname, "version"),
                           _get_target_item(m, tname, "version_build"), now)
        \o (IF string_contains(content, "GIT_") THEN GitPatterns(GitNames) ELSE << >>)
        \o ConfigvarPatterns(m, tname,
               string_to_array(Coalesce(_get_target_item(m, tname, "configvars"), << >>)))

\* <configdir>/<name of the template without its last extension>
ConfigfilePath(m, tname, configfile_in) ==
    path_join(<<IF test_z(_get_target_item(m, tname, "configdir"))
                THEN path_directory(configfile_in)
                ELSE ValueString(_get_target_item(m, tname, "configdir")),
                path_basename(configfile_in)>>)

\* _generate_configfile: the file it writes, or the Error it ends in
\* (string_split of a version that is undefined)
_generate_configfile(m, tname, configfile_in, now) ==
    IF _get_target_item(m, tname, "version") = Undefined
    THEN [path |-> "", content |-> "",
          error |-> "Cannot read properties of undefined (reading 'split')"]
    ELSE [path    |-> ConfigfilePath(m, tname, configfile_in),
          content |-> _replace_remaining_defines(
                          _io_replace_file(Templates[configfile_in],
                              ConfigfilePatterns(m, tname, Templates[configfile_in], now))),
          error   |-> ""]

\* the (target, configfile) pairs the two loops of _generate_configfiles go
\* through
RECURSIVE ConfigfilesOf(_, _)
ConfigfilesOf(m, targets) ==
    IF targets = << >> THEN << >>
    ELSE LET configfiles_in ==
                 string_to_array(Coalesce(_get_target_item(m, Head(targets), "configfiles"),
                                          << >>))
         IN  [i \in DOMAIN configfiles_in |->
                  [target |-> Head(targets), configfile |-> configfiles_in[i]]]
                 \o ConfigfilesOf(m, Tail(targets))

\* the files written for the first n pairs, each at its own time, up to the
\* first Error
RECURSIVE GeneratedConfigfiles(_, _, _, _)
GeneratedConfigfiles(m, pairs, nows, n) ==
    IF n = 0 THEN [files |-> configfiles, error |-> ""]
    ELSE LET Then(before, r) ==
                 IF before.error # "" THEN before
                 ELSE IF r.error # "" THEN [files |-> before.files, error |-> r.error]
                 ELSE [files |-> (r.path :> r.content) @@ before.files, error |-> ""]
         IN  Then(GeneratedConfigfiles(m, pairs, nows, n - 1),
                  _generate_configfile(m, pairs[n].target, pairs[n].configfile, nows[n]))

\* _generate_build_file up to the call of the generator: the gmake generator
\* goes on with the Makefile, _generate_for_ninja and an unknown generator
\* throw
_generate_build_file ==
    IF _project_generator = "gmake"
    THEN pc' = "gmake_header" /\ UNCHANGED <<exitcode, argi, console>>
    ELSE IF _project_generator = "ninja"
    THEN throw("Ninja generator has been not supported!")
    ELSE throw("unknown generator: " \o _project_generator)

\* line 3052
_generate_configfiles ==
    /\ pc = "generate"
    /\ \E nows \in [DOMAIN ConfigfilesOf(maps, _xmake_sh_targets) -> Clock] :
           LET Written(r) ==
                   /\ configfiles' = r.files
                   /\ IF r.error # "" THEN throw(r.error)
                      ELSE _generate_build_file
           IN  Written(GeneratedConfigfiles(maps, ConfigfilesOf(maps, _xmake_sh_targets), nows,
                                            Len(ConfigfilesOf(maps, _xmake_sh_targets))))
    /\ NoCall
    /\ UNCHANGED <<phasevars, listvars, scopevars, platvars, hostvars, configured,
                   pure_in, pure_out, _toolchain_try_result, files, ntmp, check_queue, probes,
                   maps, makefile, gen_queue>>

\* _gmake_begin and _gmake_add_header: writeFileSync creates the file anew
_gmake_add_header ==
    /\ pc = "gmake_header"
    /\ makefile' = <<Line("header", "", << >>)>>
    /\ pc' = "gmake_switches"
    /\ NoCall /\ GenFrame
    /\ UNCHANGED <<exitcode, argi, maps, gen_queue, console>>

\* _gmake_add_switches written with writeFileSync: the file is created anew
_gmake_add_switches_creating ==
    /\ pc = "gmake_switches"
    /\ makefile' = <<Line("switches", "V", <<"@">>)>>
    /\ pc' = "gmake_toolchains"
    /\ NoCall /\ GenFrame
    /\ UNCHANGED <<exitcode, argi, maps, gen_queue, console>>

_gmake_add_switches ==
    /\ pc = "gmake_switches"
    /\ makefile' = Append(makefile, Line("switches", "V", <<"@">>))
    /\ pc' = "gmake_toolchains"
    /\ NoCall /\ GenFrame
    /\ UNCHANGED <<exitcode, argi, maps, gen_queue, console>>

\* _dedup: of each word the first occurrence is kept
RECURSIVE _dedup_from(_, _)
_dedup_from(words, deduped) ==
    IF words = << >> THEN deduped
    ELSE _dedup_from(Tail(words),
                     IF \E i \in 1..Len(deduped) : deduped[i] = Head(words)
                     THEN deduped ELSE Append(deduped, Head(words)))

_dedup(words) == _dedup_from(words, << >>)

_get_targets_toolkinds == _dedup(_targets_toolkinds)

RECURSIVE ToolchainLines(_)
ToolchainLines(kinds) ==
    IF kinds = << >> THEN << >>
    ELSE <<Line("toolchains", Head(kinds),
                string_to_array(_get_toolchain_toolset(maps, StrOf(_target_toolchain),
                                                       Head(kinds))))>>
             \o ToolchainLines(Tail(kinds))

_gmake_add_toolchains ==
    /\ pc = "gmake_toolchains"
    /\ makefile' = makefile \o ToolchainLines(_get_targets_toolkinds)
    /\ gen_queue' = _xmake_sh_targets
    /\ pc' = "gmake_flags"
    /\ NoCall /\ GenFrame
    /\ UNCHANGED <<exitcode, argi, maps, console>>

\* the inner loop of _gmake_add_flags: the flag variables of one target, one
\* for each toolkind, up to the first Error
RECURSIVE FlagLines(_, _, _, _)
FlagLines(m, tname, kinds, lines) ==
    LET Rest(r) ==
            IF r.error # "" THEN [maps |-> r.maps, lines |-> lines, error |-> r.error]
            ELSE FlagLines(r.maps, tname, Tail(kinds),
                           Append(lines, Line("flags",
                                              tname \o "_" \o _get_flagname(Head(kinds)),
                                              r.flags)))
    IN  IF kinds = << >> THEN [maps |-> m, lines |-> lines, error |-> ""]
        ELSE Rest(_get_target_flags(m, tname, Head(kinds)))

\* one turn of the outer loop of _gmake_add_flags
_gmake_add_flags ==
    /\ pc = "gmake_flags"
    /\ gen_queue # << >>
    /\ LET Flags1(r) ==
               /\ maps' = r.maps
               /\ makefile' = makefile \o r.lines
               /\ IF r.error # ""
                  THEN throw(r.error) /\ UNCHANGED gen_queue
                  ELSE gen_queue' = Tail(gen_queue) /\ UNCHANGED <<ctlvars, console>>
       IN  Flags1(FlagLines(maps, Head(gen_queue), _get_targets_toolkinds, << >>))
    /\ NoCall /\ GenFrame

\* the targets of _xmake_sh_targets that _is_target_default
RECURSIVE DefaultTargets(_, _)
DefaultTargets(m, targets) ==
    IF targets = << >> THEN << >>
    ELSE (IF _is_target_default(m, Head(targets)) THEN <<Head(targets)>> ELSE << >>)
             \o DefaultTargets(m, Tail(targets))

\* _xmake_sh_targets.trim().split(" "): an empty list splits into one empty name
TrimSplit(targets) == IF targets = << >> THEN <<"">> ELSE targets

\* _gmake_add_build_targets up to its loop: the default: and all: lines
_gmake_add_build_targets ==
    /\ pc = "gmake_flags"
    /\ gen_queue = << >>
    /\ makefile' = makefile \o
           << Line("phony", "default", DefaultTargets(maps, _xmake_sh_targets)),
              Line("phony", "all", _xmake_sh_targets),
              Line("phony", ".PHONY", <<"default", "all">>) >>
    /\ gen_queue' = TrimSplit(_xmake_sh_targets)
    /\ pc' = "gmake_build"
    /\ NoCall /\ GenFrame
    /\ UNCHANGED <<exitcode, argi, maps, console>>

\* deps.map(_get_target_file).filter(test_nz)
RECURSIVE DepFiles(_, _)
DepFiles(m, deps) ==
    IF deps = << >> THEN << >>
    ELSE TokenOf(_get_target_file(m, Head(deps))) \o DepFiles(m, Tail(deps))

\* _gmake_add_build_object for each source file: the rule of the object file
\* and its recipe, up to the first raise
RECURSIVE ObjectLines(_, _, _, _)
ObjectLines(m, tname, sourcefiles, lines) ==
    IF sourcefiles = << >> THEN [lines |-> lines, error |-> ""]
    ELSE LET sourcefile == Head(sourcefiles)
             objectfile == _get_target_objectfile(m, tname, sourcefile)
             sourcekind == path_sourcekind(sourcefile)
             toolname   == TargetToolname(m, sourcekind)
             flagname   == tname \o "_" \o _get_flagname(sourcekind)
             rule       == <<Line("build", objectfile, <<sourcefile>>),
                             Line("recipe", "", <<"@echo", "compiling." \o _target_mode,
                                                  sourcefile>>)>>
         IN  IF sourcekind = ""
             THEN [lines |-> lines, error |-> "unknown sourcekind for " \o sourcefile]
             ELSE IF toolname = "" THEN [lines |-> lines, error |-> "unknown tool"]
             ELSE IF toolname \notin {"gcc", "gxx", "clang", "clangxx"}
             THEN [lines |-> lines \o rule, error |-> "unknown toolname(${toolname})!"]
             ELSE ObjectLines(m, tname, Tail(sourcefiles), lines \o rule \o
                      <<Line("recipe", "", <<"@mkdir", "-p", path_directory(objectfile)>>),
                        Line("recipe", "", <<"$(V)$(" \o sourcekind \o ")", "-c",
                                             "$(" \o flagname \o ")", "-o",
                                             objectfile, sourcefile>>)>>)

\* the toolkind that links a target of a kind ("" where the switch raises)
LinkerOf(targetkind) ==
    IF targetkind = <<"binary">> THEN "ld"
    ELSE IF targetkind = <<"static">> THEN "ar"
    ELSE IF targetkind = <<"shared">> THEN "sh"
    ELSE ""

\* _gmake_add_build_target: the lines it writes and the error it ends in
BuildLines(m, tname) ==
    LET targetfile  == _get_target_file(m, tname)
        deps        == Coalesce(_get_target_item(m, tname, "deps"), << >>)
        objectfiles == _get_target_objectfiles(m, tname)
        targetkind  == _get_target_item(m, tname, "kind")
        toolkind    == LinkerOf(targetkind)
        toolname    == TargetToolname(m, toolkind)
        flagname    == tname \o "_" \o _get_flagname(toolkind)
        depfiles    == DepFiles(m, string_to_array(deps))
        rule        == <<Line("build", tname, <<targetfile>>),
                         Line("build", targetfile, depfiles \o objectfiles),
                         Line("recipe", "", <<"@echo", "linking." \o _target_mode,
                                              targetfile>>)>>
        mkdir       == Line("recipe", "", <<"@mkdir", "-p", path_directory(targetfile)>>)
        link        == IF toolname = "ar"
                       THEN Line("recipe", "", <<"$(V)$(" \o toolkind \o ")",
                                                 "$(" \o flagname \o ")", targetfile>>
                                                   \o objectfiles)
                       ELSE Line("recipe", "", <<"$(V)$(" \o toolkind \o ")", "-o",
                                                 targetfile>> \o objectfiles
                                                   \o <<"$(" \o flagname \o ")">>)
        sourcefiles == _get_target_sourcefiles(m, tname)
        objects     == ObjectLines(m, tname, string_to_array(sourcefiles), << >>)
    IN  IF toolkind = ""
        THEN [lines |-> << >>,
              error |-> "unknown targetkind(" \o ValueString(targetkind) \o ")!"]
        ELSE IF toolname = "" THEN [lines |-> << >>, error |-> "unknown tool"]
        ELSE IF toolname \notin {"gcc", "gxx", "clang", "clangxx", "ar"}
        THEN [lines |-> rule, error |-> "unknown toolname(" \o toolname \o ")!"]
        \* _gmake_add_build_objects: sourcefiles.split(" ") of undefined
        ELSE IF sourcefiles = Undefined
        THEN [lines |-> rule \o <<mkdir, link>>,
              error |-> "Cannot read properties of undefined (reading 'split')"]
        ELSE [lines |-> rule \o <<mkdir, link>> \o objects.lines, error |-> objects.error]

\* one turn of the loop of _gmake_add_build_targets
_gmake_add_build_target ==
    /\ pc = "gmake_build"
    /\ gen_queue # << >>
    /\ LET r == BuildLines(maps, Head(gen_queue))
       IN  /\ makefile' = makefile \o r.lines
           /\ IF r.error # ""
              THEN throw(r.error) /\ UNCHANGED gen_queue
              ELSE gen_queue' = Tail(gen_queue) /\ UNCHANGED <<ctlvars, console>>
    /\ NoCall /\ GenFrame
    /\ UNCHANGED maps

\* _gmake_add_clean_target for each target
RECURSIVE RmLines(_)
RmLines(paths) ==
    IF paths = << >> THEN << >>
    ELSE <<Line("recipe", "", <<"@rm", Head(paths)>>)>> \o RmLines(Tail(paths))

RECURSIVE CleanLines(_, _)
CleanLines(m, targets) ==
    IF targets = << >> THEN << >>
    ELSE RmLines(<<_get_target_file(m, Head(targets))>>
                     \o _get_target_objectfiles(m, Head(targets)))
             \o CleanLines(m, Tail(targets))

_gmake_add_clean ==
    /\ pc = "gmake_build"
    /\ gen_queue = << >>
    /\ LET targets == DefaultTargets(maps, TrimSplit(_xmake_sh_targets))
       IN  makefile' = makefile \o <<Line("clean", "clean", targets)>>
                           \o CleanLines(maps, targets)
    /\ pc' = "gmake_install"
    /\ NoCall /\ GenFrame
    /\ UNCHANGED <<exitcode, argi, maps, gen_queue, console>>

\* the install directories of a run without --prefix, --bindir, --libdir
\* on a host that has /usr/local (src 515-519)
_install_prefix_default == "/usr/local"
_install_bindir_default == "bin"
_install_libdir_default == "lib"

_install_includedir_default == "include"

\* the loop of _gmake_add_install_target over the entries src:root:prefix:filename
\* of headerfiles or installfiles, which go below dstdir
RECURSIVE InstallPathLines(_, _)
InstallPathLines(dstdir, entries) ==
    LET Copy(src, dstfile) ==
            <<Line("recipe", "", <<"@mkdir", "-p", path_directory(dstfile)>>),
              Line("recipe", "", <<"@cp", "-p", src, dstfile>>)>>
        Entry(result) ==
            LET Field(i)  == IF i <= Len(result) THEN result[i] ELSE ""
                filename  == IF Field(4) = "" THEN path_filename(result[1]) ELSE Field(4)
                dir       == IF Field(3) # "" THEN path_join(<<dstdir, Field(3)>>) ELSE dstdir
            IN  Copy(result[1],
                     IF Field(2) # ""
                     THEN path_join(<<dir, path_relative(Field(2), result[1])>>)
                     ELSE path_join(<<dir, filename>>))
    IN  IF entries = << >> THEN << >>
        ELSE Entry(string_split(Head(entries), ":"))
                 \o InstallPathLines(dstdir, Tail(entries))

\* _gmake_add_install_target: the target file, the header files, the
\* install files
InstallLinesOf(m, tname) ==
    LET targetfile == _get_target_file(m, tname)
        item       == _get_target_item(m, tname, "installdir")
        installdir == IF test_z(item) THEN _install_prefix_default ELSE ValueString(item)
        targetkind == _get_target_item(m, tname, "kind")
        dir        == IF targetkind = <<"binary">>
                      THEN installdir \o "/" \o _install_bindir_default
                      ELSE installdir \o "/" \o _install_libdir_default
    IN  (IF targetkind = <<"binary">> \/ IsLibraryKind(targetkind)
         THEN <<Line("recipe", "", <<"@mkdir", "-p", dir>>),
                Line("recipe", "", <<"@cp", "-p", targetfile,
                                     dir \o "/" \o path_filename(targetfile)>>)>>
         ELSE << >>)
        \o InstallPathLines(path_join(<<installdir, _install_includedir_default>>),
                            string_to_array(_get_target_item(m, tname, "headerfiles")))
        \o InstallPathLines(installdir,
                            string_to_array(_get_target_item(m, tname, "installfiles")))

RECURSIVE InstallLines(_, _)
InstallLines(m, targets) ==
    IF targets = << >> THEN << >>
    ELSE InstallLinesOf(m, Head(targets)) \o InstallLines(m, Tail(targets))

_gmake_add_install ==
    /\ pc = "gmake_install"
    /\ LET targets == DefaultTargets(maps, _xmake_sh_targets)
       IN  makefile' = makefile \o <<Line("install", "install", targets)>>
                           \o InstallLines(maps, targets)
    /\ pc' = "gmake_run"
    /\ NoCall /\ GenFrame
    /\ UNCHANGED <<exitcode, argi, maps, gen_queue, console>>

\* the default targets of kind binary
RECURSIVE RunTargets(_, _)
RunTargets(m, targets) ==
    IF targets = << >> THEN << >>
    ELSE (IF _get_target_item(m, Head(targets), "kind") = <<"binary">>
             /\ _is_target_default(m, Head(targets))
          THEN <<Head(targets)>> ELSE << >>)
             \o RunTargets(m, Tail(targets))

RECURSIVE RunLines(_, _)
RunLines(m, targets) ==
    IF targets = << >> THEN << >>
    ELSE <<Line("recipe", "", <<"@" \o _get_target_file(m, Head(targets))>>)>>
             \o RunLines(m, Tail(targets))

_gmake_add_run ==
    /\ pc = "gmake_run"
    /\ LET targets == RunTargets(maps, _xmake_sh_targets)
       IN  makefile' = makefile \o <<Line("run", "run", targets)>> \o RunLines(maps, targets)
    /\ pc' = "gmake_done"
    /\ NoCall /\ GenFrame
    /\ UNCHANGED <<exitcode, argi, maps, gen_queue, console>>

\* _gmake_done: "makefile is generated!"; the script has reached its end
_gmake_done ==
    /\ pc = "gmake_done"
    /\ pc' = "exited"
    /\ exitcode' = <<0>>
    /\ console' = Append(console, <<"makefile", "generated">>)
    /\ NoCall /\ GenFrame
    /\ UNCHANGED <<argi, maps, makefile, gen_queue>>

\* the statements from line 3052 on
Generate ==
    \/ _generate_configfiles
    \/ _gmake_add_header
    \/ _gmake_add_switches
    \/ _gmake_add_toolchains
    \/ _gmake_add_flags
    \/ _gmake_add_build_targets
    \/ _gmake_add_build_target
    \/ _gmake_add_clean
    \/ _gmake_add_install
    \/ _gmake_add_run
    \/ _gmake_done

-----------------------------------------------------------------------------
(* Initial states and specifications *)

Programs == GccPrograms \cup GxxPrograms \cup ClangPrograms \cup ClangxxPrograms
                \cup ArPrograms \cup {"make"}

NoEnv == [CC |-> "", CXX |-> "", AS |-> "", LD |-> "", AR |-> "",
          os_host |-> "linux", os_arch |-> "x86_64"]

Arg(name, value) == [name |-> name, value |-> value]

\* the module-level initial values (lines 41-65), on a host, with a command
\* line and a root script drawn from the given sets; control starts at pc0,
\* and a specification of a function alone draws its platform and its input
InitVars(pc0, plats, inputs, argvs, envs, hosts, scripts) ==
    /\ pc = pc0
    /\ exitcode = << >>
    /\ argi = 0
    /\ ncalls = 0
    /\ last_call = [fn |-> "", args |-> << >>]
    /\ _loading_options = TRUE
    /\ _loading_toolchains = TRUE
    /\ _loading_targets = TRUE
    /\ maps = NoMap
    /\ _xmake_sh_options = << >>
    /\ _xmake_sh_targets = << >>
    /\ _xmake_sh_toolchains = << >>
    /\ _xmake_sh_option_current = ""
    /\ _xmake_sh_target_current = ""
    /\ _xmake_sh_toolchain_current = ""
    /\ _targets_toolkinds = << >>
    /\ _target_toolchain = Undefined
    /\ _target_plat \in plats
    /\ _target_arch = ""
    /\ _target_mode = ""
    /\ _project_generator = "gmake"
    /\ _toolchain_try_result = [t \in CompilerToolnames |-> ""]
    /\ argv \in argvs
    /\ env \in envs
    /\ host_ok \in hosts
    /\ xmake_js \in scripts
    /\ configured = {}
    /\ files = {}
    /\ ntmp = 0
    /\ check_queue = << >>
    /\ probes = << >>
    /\ console = << >>
    /\ makefile = << >>
    /\ configfiles = NoFile
    /\ gen_queue = << >>
    /\ pure_in \in inputs
    /\ pure_out = << >>

\* the state when the first top-level statement runs
InitState(argvs, envs, hosts, scripts) ==
    InitVars("start", {""}, {<< >>}, argvs, envs, hosts, scripts)

\* a root script whose calls are drawn one at a time, up to a bound
InitWith(argvs, envs, hosts) == InitState(argvs, envs, hosts, {<< >>})

\* the script has evaluated fewer than max calls
Within(max) == ncalls < max

\* the statements that are no script API call
Toplevel ==
    \/ _load_options_and_toolchains
    \/ script_end
    \/ _handle_option
    \/ _declare_envs
    \/ _declare_clang
    \/ _declare_gcc
    \/ _declare_x86_64_w64_mingw32
    \/ _declare_i686_w64_mingw32
    \/ _check_platform
    \/ _check_toolchain
    \/ _check_options
    \/ _check_option
    \/ _load_targets

(* Spec: every API function, each with one or two arguments *)

Init ==
    InitWith({ << >>, <<Arg("plat", <<"mingw">>)>>, <<Arg("help", <<"--help">>)>>,
               <<Arg("version", <<"--version">>)>>, <<Arg("a", <<"y">>)>>,
               <<Arg("verbose", <<"--verbose">>), Arg("arch", <<"i386">>),
                 Arg("mode", <<"debug">>), Arg("toolchain", <<"clang">>)>> },
             {NoEnv},
             {Programs, Programs \ {"clang"}})

Next ==
    \/ Toplevel
    \/ Within(MaxCalls) /\ option("a", Undefined, Undefined)
    \/ Within(MaxCalls) /\ option_end
    \/ Within(MaxCalls) /\ set_config("a", <<"y">>)
    \/ Within(MaxCalls) /\ set_showmenu(True)
    \/ Within(MaxCalls) /\ set_description(<<"d">>)
    \/ \E key \in {"cfuncs", "cxxincludes"} : Within(MaxCalls) /\ add_option_input(key, <<"f">>)
    \/ Within(MaxCalls) /\ target("t")
    \/ Within(MaxCalls) /\ target_end
    \/ \E kind \in {"binary", "phony"} : Within(MaxCalls) /\ set_kind(kind)
    \/ Within(MaxCalls) /\ set_configvar("V", <<"1">>)
    \/ Within(MaxCalls) /\ add_deps(<<"t">>)
    \/ \E file \in {"main.c", "main.rs"} : Within(MaxCalls) /\ add_files(<<file>>)
    \/ Within(MaxCalls) /\ add_defines(<<"A">>)
    \/ Within(MaxCalls) /\ add_links(<<"m">>)
    \/ Within(MaxCalls) /\ add_syslinks(<<"dl">>)
    \/ Within(MaxCalls) /\ set_default(True)
    \/ Within(MaxCalls) /\ toolchain("my")
    \/ Within(MaxCalls) /\ toolchain_end
    \/ Within(MaxCalls) /\ set_toolset("cc", << <<"gcc">> >>)

Spec == Init /\ [][Next]_vars

(* SpecOptions: scripts that declare options, on a host where the gcc      *)
(* toolchain is found                                                       *)

InitOptions ==
    InitWith({ << >>, <<Arg("a", <<"n">>)>> }, {NoEnv}, {Programs})

NextOptions ==
    \/ Toplevel
    \/ \E name \in {"a", "b"} :
           Within(MaxOptionCalls) /\ option(name, Undefined, Undefined)
    \/ Within(MaxOptionCalls) /\ option("a", <<"d">>, <<"y">>)
    \/ Within(MaxOptionCalls) /\ option_end
    \/ Within(MaxOptionCalls) /\ set_default(False)
    \/ \E show \in {True, False} : Within(MaxOptionCalls) /\ set_showmenu(show)
    \/ \E key \in {"cfuncs", "cxxsnippets"} :
           Within(MaxOptionCalls) /\ add_option_input(key, <<"f">>)
    \/ Within(MaxOptionCalls) /\ add_links(<<"m">>)
    \/ Within(MaxOptionCalls) /\ set_config("a", <<"y">>)

SpecOptions == InitOptions /\ [][NextOptions]_vars

(* SpecToolchain: hosts and environments for toolchain detection *)

HostEnv(cc, cxx, ar) == [NoEnv EXCEPT !.CC = cc, !.CXX = cxx, !.AR = ar]

InitToolchain ==
    InitWith({ << >>, <<Arg("plat", <<"mingw">>)>>, <<Arg("toolchain", <<"clang">>)>>,
               <<Arg("plat", <<"mingw">>), Arg("arch", <<"i386">>)>> },
             { NoEnv,
               HostEnv("/opt/a/gcc", "/opt/a/g++", "/opt/a/ar"),
               HostEnv("/opt/a/gcc", "/opt/b/gcc", "/opt/a/ar"),
               HostEnv("/opt/b/gcc", "/opt/a/g++", "/opt/a/ar"),
               HostEnv("/opt/a/gcc", "", "") },
             { Programs \ missing :
                   missing \in { {}, {"/opt/b/gcc"}, {"gcc", "g++"},
                                 {"x86_64-w64-mingw32-ar"} } })

NextToolchain ==
    \/ Toplevel
    \/ \E name \in {"gcc", "my"} : Within(MaxToolchainCalls) /\ toolchain(name)
    \/ Within(MaxToolchainCalls) /\ toolchain_end
    \/ \E programs \in { << <<"clang">> >>, << << >>, << >>, <<"clang">> >> } :
           Within(MaxToolchainCalls) /\ set_toolset("cc", programs)
    \/ Within(MaxToolchainCalls) /\ option("a", Undefined, Undefined)
    \/ Within(MaxToolchainCalls) /\ add_option_input("cfuncs", <<"f">>)

SpecToolchain == InitToolchain /\ [][NextToolchain]_vars

(* SpecTargets: scripts that declare targets and their defines *)

InitTargets == InitWith({ << >>, <<Arg("mode", <<"debug">>)>> }, {NoEnv}, {Programs})

NextTargets ==
    \/ Toplevel
    \/ \E name \in {"t", "u"} : Within(MaxTargetCalls) /\ target(name)
    \/ Within(MaxTargetCalls) /\ target_end
    \/ Within(MaxTargetCalls) /\ option("o", Undefined, Undefined)
    \/ Within(MaxTargetCalls) /\ option_end
    \/ Within(MaxTargetCalls) /\ add_option_input("cincludes", <<"h.h">>)
    \/ \E args \in { <<"A", "B">>, <<"A", "B", "{public}", "C">>, <<"{public}", "D">>,
                     <<"{public}">>, << >> } :
           Within(MaxTargetCalls) /\ add_defines(args)

SpecTargets == InitTargets /\ [][NextTargets]_vars

(* SpecProject: whole runs, from the first statement to the end of          *)
(* generation, each on one root script.  The script is evaluated call by    *)
(* call, once in each pass.                                                  *)

\* the calls of a script, as Call records them
ScriptCall(fn, args) == [fn |-> fn, args |-> args]

Target(name)         == ScriptCall("target", <<<<name>>>>)
TargetEnd            == ScriptCall("target_end", << >>)
SetKind(kind)        == ScriptCall("set_kind", <<<<kind>>>>)
AddFiles(args)       == ScriptCall("add_files", <<args>>)
AddDeps(args)        == ScriptCall("add_deps", <<args>>)
AddDefines(args)     == ScriptCall("add_defines", <<args>>)
AddUdefines(args)    == ScriptCall("add_udefines", <<args>>)
AddIncludedirs(args) == ScriptCall("add_includedirs", <<args>>)
AddLinkdirs(args)    == ScriptCall("add_linkdirs", <<args>>)
AddLinks(args)       == ScriptCall("add_links", <<args>>)
AddSyslinks(args)    == ScriptCall("add_syslinks", <<args>>)
AddFrameworks(args)  == ScriptCall("add_frameworks", <<args>>)
SetLanguages(args)   == ScriptCall("set_languages", <<args>>)
SetDefault(value)    == ScriptCall("set_default", <<value>>)
SetFilename(value)   == ScriptCall("set_filename", <<value>>)
SetBasename(value)   == ScriptCall("set_basename", <<value>>)
SetExtension(value)  == ScriptCall("set_extension", <<value>>)
SetPrefixname(value) == ScriptCall("set_prefixname", <<value>>)
SetTargetdir(dir)    == ScriptCall("set_targetdir", <<<<dir>>>>)
SetInstalldir(dir)   == ScriptCall("set_installdir", <<<<dir>>>>)
AddHeaderfiles(filepattern, prefixdir, filename) ==
    ScriptCall("add_headerfiles", <<<<filepattern, prefixdir, filename>>>>)
AddInstallfiles(filepattern, prefixdir, filename) ==
    ScriptCall("add_installfiles", <<<<filepattern, prefixdir, filename>>>>)

\* target(name); set_kind(kind); add_files(file)
Declare(name, kind, file) == <<Target(name), SetKind(kind), AddFiles(<<file>>)>>

\* where the evaluation of the script stands in the current pass
PassPos == IF pc = "load_targets" THEN ncalls - Len(xmake_js) ELSE ncalls

\* the script has been evaluated to its end
ScriptRan == PassPos = Len(xmake_js)

\* the next call of the script is one of fn
Scripted(fn) == pc \in ScriptPcs /\ PassPos < Len(xmake_js) /\ xmake_js[PassPos + 1].fn = fn

\* and these are its arguments
NextArgs == xmake_js[PassPos + 1].args

\* library projects: public and private attributes, deps over one and two
\* edges, a shared and a static library, a binary between two targets
LibraryScripts ==
    { Declare("foo", "shared", "main.c")
          \o <<AddIncludedirs(<<"include", "{public}">>), AddIncludedirs(<<"./src/">>)>>
          \o Declare("app", "binary", "main.c") \o <<AddDeps(<<"foo">>)>>,
      Declare("foo", "static", "main.c")
          \o <<AddIncludedirs(<<"include", "{public}">>), AddIncludedirs(<<"./src/">>)>>
          \o Declare("app", "binary", "main.cpp") \o <<AddDeps(<<"foo">>)>>,
      Declare("b", "static", "main.c") \o <<AddIncludedirs(<<"{public}", "inc_b">>)>>
          \o Declare("a", "shared", "main.c")
          \o <<AddDeps(<<"b">>), AddIncludedirs(<<"inc_a", "{public}">>)>>
          \o Declare("app", "binary", "main.c")
          \o <<AddDeps(<<"a">>), AddIncludedirs(<<"inc">>), TargetEnd>>,
      Declare("c", "static", "main.c")
          \o Declare("a", "static", "main.c") \o <<AddDeps(<<"c">>)>>
          \o Declare("b", "shared", "main.c") \o <<AddDeps(<<"c">>), SetTargetdir("out/lib")>>
          \o Declare("app", "binary", "main.c") \o <<AddDeps(<<"a", "b">>)>>,
      Declare("a", "static", "main.c")
          \o Declare("b", "shared", "main.c") \o <<AddDeps(<<"a">>)>>
          \o Declare("app", "binary", "main.c") \o <<AddDeps(<<"a", "b">>)>>,
      Declare("lib", "static", "main.c") \o <<AddIncludedirs(<<"inc", "{public}">>)>>
          \o Declare("tool", "binary", "main.c") \o <<AddDeps(<<"lib">>)>>
          \o Declare("app", "binary", "main.c") \o <<AddDeps(<<"tool">>)>>,
      Declare("lib", "static", "main.c")
          \o <<AddDefines(<<"D", "{public}">>), AddLinks(<<"m", "{public}">>),
               AddSyslinks(<<"{public}", "dl">>), AddFrameworks(<<"Cocoa", "{public}">>),
               AddLinkdirs(<<"libs", "{public}">>)>>
          \o Declare("app", "binary", "main.c") \o <<AddDeps(<<"lib">>)>>,
      Declare("lib", "static", "main.c") \o <<AddUdefines(<<"X", "{public}">>)>>
          \o Declare("app", "binary", "main.c") \o <<AddDeps(<<"lib">>)>> }

\* projects whose deps graph is not a forest of declared targets
GraphScripts ==
    { Declare("a", "static", "main.c") \o <<AddDeps(<<"b">>)>>
          \o Declare("b", "static", "main.c") \o <<AddDeps(<<"a">>)>>,
      Declare("lib", "shared", "main.c") \o <<AddDeps(<<"lib">>)>>,
      Declare("app", "binary", "main.c") \o <<AddDeps(<<"ghost">>)>>,
      <<SetKind("static"), Target("app"), AddFiles(<<"main.c">>), AddDeps(<<"ghost">>)>> }

\* one target and its own attributes
TargetScripts ==
    { Declare("app", "binary", "main.c")
          \o <<AddDefines(<<"A", "B=\"x\"">>), AddUdefines(<<"X">>), AddIncludedirs(<<"inc">>),
               AddLinkdirs(<<"libs">>), AddLinks(<<"m">>), AddSyslinks(<<"dl">>),
               AddFrameworks(<<"Cocoa">>)>>,
      Declare("t", "binary", "main.c") \o <<SetLanguages(<<"c++99">>)>>,
      Declare("t", "binary", "main.cpp") \o <<SetLanguages(<<"c++99">>)>>,
      Declare("t", "binary", "main.c") \o <<SetLanguages(<<"c99", "cxx2b">>)>>
          \o Declare("u", "static", "main.cc"),
      Declare("t", "binary", "main.cpp") \o <<AddFiles(<<"main.c">>)>>
          \o <<SetLanguages(<<"c99", "c++17", "c2x", "gnu++03">>)>>,
      Declare("t", "static", "main.c")
          \o <<SetBasename(<<"base">>), SetPrefixname(<<"pre">>), SetExtension(<<".lib">>)>>,
      Declare("t", "shared", "main.c") \o <<SetBasename(<<"base">>), SetTargetdir("out/")>>,
      Declare("t", "shared", "main.c") \o <<SetFilename(<<"t.bin">>), SetExtension(<<".x">>)>>,
      Declare("t", "binary", "main.c") \o <<SetTargetdir("./bin"), SetPrefixname(<<"x">>)>>
          \o Declare("u", "static", "main.c") \o <<SetFilename(<<"sub/u.a">>)>> }

\* which targets are default ones
DefaultScripts ==
    { Declare("a", "binary", "main.c") \o <<SetDefault(False)>>
          \o Declare("b", "binary", "main.c") \o <<SetDefault(True)>>
          \o Declare("c", "static", "main.c"),
      Declare("a", "binary", "main.c") \o <<Target("b"), Target("a"), SetDefault(<<"yes">>)>>
          \o Declare("b", "static", "main.c") \o <<SetDefault(<<"no">>)>>,
      <<SetDefault(True)>> \o Declare("a", "binary", "main.c") \o <<SetDefault(True)>>
          \o Declare("b", "binary", "main.c"),
      <<SetDefault(False)>> \o Declare("a", "binary", "main.c"),
      << >> }

\* header files and install files: with and without a root directory, a
\* prefix directory and a file name
InstallScripts ==
    { Declare("lib", "static", "main.c")
          \o <<AddHeaderfiles("src/(inc/a.h)", "", ""), AddHeaderfiles("src/b.h", "", ""),
               AddHeaderfiles("src/(inc/c.h)", "pre", ""), AddHeaderfiles("src/d.h", "pre", "e.h"),
               AddInstallfiles("doc/(man/x.1)", "share", ""), AddInstallfiles("doc/y.txt", "", "")>>,
      Declare("lib", "shared", "main.c")
          \o <<SetInstalldir("out"),
               AddHeaderfiles("src/(inc/a.h)", "", "z.h"), AddHeaderfiles("src/b.h", "", "y.h"),
               AddInstallfiles("doc/(man/x.1)", "share", "w.1"),
               AddInstallfiles("(doc/y.txt)", "share", "v.txt")>>,
      <<AddHeaderfiles("(inc/root.h)", "", "")>>
          \o Declare("app", "binary", "main.c")
          \o <<AddHeaderfiles("inc/(app/app.h)", "", ""), AddInstallfiles("./data/(f.bin)", "", "")>>
          \o Declare("off", "static", "main.c")
          \o <<SetDefault(False), AddHeaderfiles("off.h", "", "")>> }

InitProject ==
    InitState({ << >>, <<Arg("plat", <<"mingw">>)>>, <<Arg("toolchain", <<"clang">>)>>,
                <<Arg("plat", <<"macosx">>), Arg("mode", <<"debug">>)>> },
              {NoEnv}, {Programs},
              LibraryScripts \cup GraphScripts \cup TargetScripts \cup DefaultScripts
                  \cup InstallScripts)

NextProject ==
    \/ _load_options_and_toolchains
    \/ ScriptRan /\ script_end
    \/ _handle_option
    \/ _declare_envs
    \/ _declare_clang
    \/ _declare_gcc
    \/ _declare_x86_64_w64_mingw32
    \/ _declare_i686_w64_mingw32
    \/ _check_platform
    \/ _check_toolchain
    \/ _check_options
    \/ _load_targets
    \/ Scripted("target") /\ target(NextArgs[1][1])
    \/ Scripted("target_end") /\ target_end
    \/ Scripted("set_kind") /\ set_kind(NextArgs[1][1])
    \/ Scripted("add_files") /\ add_files(NextArgs[1])
    \/ Scripted("add_deps") /\ add_deps(NextArgs[1])
    \/ Scripted("add_defines") /\ add_defines(NextArgs[1])
    \/ Scripted("add_udefines") /\ add_udefines(NextArgs[1])
    \/ Scripted("add_includedirs") /\ add_includedirs(NextArgs[1])
    \/ Scripted("add_linkdirs") /\ add_linkdirs(NextArgs[1])
    \/ Scripted("add_links") /\ add_links(NextArgs[1])
    \/ Scripted("add_syslinks") /\ add_syslinks(NextArgs[1])
    \/ Scripted("add_frameworks") /\ add_frameworks(NextArgs[1])
    \/ Scripted("set_languages") /\ set_languages(NextArgs[1])
    \/ Scripted("set_default") /\ set_default(NextArgs[1])
    \/ Scripted("set_filename") /\ set_filename(NextArgs[1])
    \/ Scripted("set_basename") /\ set_basename(NextArgs[1])
    \/ Scripted("set_extension") /\ set_extension(NextArgs[1])
    \/ Scripted("set_prefixname") /\ set_prefixname(NextArgs[1])
    \/ Scripted("set_targetdir") /\ set_targetdir(NextArgs[1][1])
    \/ Scripted("set_installdir") /\ set_installdir(NextArgs[1][1])
    \/ Scripted("add_headerfiles")
           /\ add_headerfiles(NextArgs[1][1], NextArgs[1][2], NextArgs[1][3])
    \/ Scripted("add_installfiles")
           /\ add_installfiles(NextArgs[1][1], NextArgs[1][2], NextArgs[1][3])
    \/ _generate_configfiles
    \/ _gmake_add_header
    \/ _gmake_add_switches
    \/ _gmake_add_toolchains
    \/ _gmake_add_flags
    \/ _gmake_add_build_targets
    \/ _gmake_add_build_target
    \/ _gmake_add_clean
    \/ _gmake_add_install
    \/ _gmake_add_run
    \/ _gmake_done

SpecProject == InitProject /\ [][NextProject]_vars

-----------------------------------------------------------------------------
(* SpecConfigfile: projects with configfiles, configured twice *)

SetVersion(version, version_build) == ScriptCall("set_version", <<version, version_build>>)
SetConfigvar(name, value)          == ScriptCall("set_configvar", <<<<name>>, value>>)
AddConfigfiles(args)               == ScriptCall("add_configfiles", <<args>>)
SetConfigdir(dir)                  == ScriptCall("set_configdir", <<<<dir>>>>)

\* templates with and without placeholders the target has no configvar for,
\* with and without a version and a build date pattern
ConfigScripts ==
    { Declare("t", "binary", "main.c")
          \o <<SetVersion(<<"1.2.3">>, <<"%Y%m%d%H%M">>), SetConfigvar("HAS_PTHREAD", <<"1">>),
               AddConfigfiles(<<"config.h.in">>)>>,
      Declare("t", "binary", "main.c")
          \o <<SetVersion(<<"1.2">>, Undefined), SetConfigvar("A", <<"0">>),
               SetConfigvar("B", <<"x">>), SetConfigdir("out"),
               AddConfigfiles(<<"src/conf.h.in">>)>>,
      Declare("t", "static", "main.c")
          \o <<SetVersion(<<"2.0.1">>, <<"%Y%m%d">>),
               AddConfigfiles(<<"ver.txt.in", "./config.h.in">>)>>,
      Declare("t", "static", "main.c")
          \o <<SetVersion(<<"1.0">>, Undefined), AddConfigfiles(<<"ver.txt.in">>)>>,
      Declare("t", "binary", "main.c")
          \o <<SetVersion(<<"3">>, <<"%Y">>), SetConfigvar("FOO", << >>),
               SetConfigvar("HAS_PTHREAD", <<"false">>), SetConfigvar("A", <<"${B}">>),
               SetConfigvar("B", <<"true">>),
               AddConfigfiles(<<"config.h.in", "src/conf.h.in">>)>>,
      Declare("t", "binary", "main.c") \o <<AddConfigfiles(<<"config.h.in">>)>> }

InitConfigfile ==
    InitState({ << >>, <<Arg("plat", <<"mingw">>)>>, <<Arg("plat", <<"macosx">>)>> },
              {NoEnv}, {Programs, Programs \cup {"git"}}, ConfigScripts)

\* the configurator is started again in the same project: the first run's
\* configfiles are kept to compare with, the files on disk stay, and the
\* program starts from its initial state with the same arguments and script
configure_again ==
    /\ pc = "gmake_header"
    /\ pure_out = << >>
    /\ pure_out' = <<configfiles>>
    /\ pc' = "start"
    /\ exitcode' = << >>
    /\ argi' = 0
    /\ ncalls' = 0
    /\ last_call' = [fn |-> "", args |-> << >>]
    /\ _loading_options' = TRUE
    /\ _loading_toolchains' = TRUE
    /\ _loading_targets' = TRUE
    /\ maps' = NoMap
    /\ _xmake_sh_options' = << >>
    /\ _xmake_sh_targets' = << >>
    /\ _xmake_sh_toolchains' = << >>
    /\ _xmake_sh_option_current' = ""
    /\ _xmake_sh_target_current' = ""
    /\ _xmake_sh_toolchain_current' = ""
    /\ _targets_toolkinds' = << >>
    /\ _target_toolchain' = Undefined
    /\ _target_plat' = ""
    /\ _target_arch' = ""
    /\ _target_mode' = ""
    /\ _project_generator' = "gmake"
    /\ _toolchain_try_result' = [t \in CompilerToolnames |-> ""]
    /\ configured' = {}
    /\ files' = {}
    /\ ntmp' = 0
    /\ check_queue' = << >>
    /\ probes' = << >>
    /\ console' = << >>
    /\ makefile' = << >>
    /\ gen_queue' = << >>
    /\ UNCHANGED <<hostvars, configfiles, pure_in>>

NextConfigfile ==
    \/ _load_options_and_toolchains
    \/ ScriptRan /\ script_end
    \/ _handle_option
    \/ _declare_envs
    \/ _declare_clang
    \/ _declare_gcc
    \/ _declare_x86_64_w64_mingw32
    \/ _declare_i686_w64_mingw32
    \/ _check_platform
    \/ _check_toolchain
    \/ _check_options
    \/ _load_targets
    \/ Scripted("target") /\ target(NextArgs[1][1])
    \/ Scripted("set_kind") /\ set_kind(NextArgs[1][1])
    \/ Scripted("add_files") /\ add_files(NextArgs[1])
    \/ Scripted("set_version") /\ set_version(NextArgs[1], NextArgs[2])
    \/ Scripted("set_configvar") /\ set_configvar(NextArgs[1][1], NextArgs[2])
    \/ Scripted("add_configfiles") /\ add_configfiles(NextArgs[1])
    \/ Scripted("set_configdir") /\ set_configdir(NextArgs[1][1])
    \/ _generate_configfiles
    \/ configure_again

SpecConfigfile == InitConfigfile /\ [][NextConfigfile]_vars

-----------------------------------------------------------------------------
(* SpecScopes: scripts with option blocks and targets, through both passes
   and generation *)

Option(name, description, _default) == ScriptCall("option", <<<<name>>, description, _default>>)
OptionEnd               == ScriptCall("option_end", << >>)
AddCfuncs(value)        == ScriptCall("add_cfuncs", <<value>>)
SetConfig(name, value)  == ScriptCall("set_config", <<<<name>>, value>>)
AddLdflags(args)        == ScriptCall("add_ldflags", <<args>>)
AddRpathdirs(args)      == ScriptCall("add_rpathdirs", <<args>>)
SetStrip(value)         == ScriptCall("set_strip", <<value>>)
SetSymbols(value)       == ScriptCall("set_symbols", <<value>>)

\* option blocks before and inside the targets, with calls that are meant for
\* the option and calls that are meant for a target; set_config for an option
\* with and without a probing input
ScopeScripts ==
    { <<Option("a", Undefined, Undefined), OptionEnd>>
          \o Declare("t", "binary", "main.c") \o <<SetConfig("a", <<"y">>)>>,
      <<Option("a", Undefined, Undefined), AddCfuncs(<<"f">>), OptionEnd>>
          \o Declare("t", "binary", "main.c") \o <<SetConfig("a", <<"n">>)>>,
      <<Option("a", <<"d">>, <<"y">>)>> \o Declare("t", "binary", "main.c"),
      <<Option("o", Undefined, Undefined), AddLdflags(<<"-pthread">>), OptionEnd>>
          \o Declare("t", "binary", "main.c"),
      <<Option("o", Undefined, Undefined), AddDefines(<<"X">>), SetLanguages(<<"c99">>),
        OptionEnd>>
          \o Declare("t", "binary", "main.c") \o <<AddLdflags(<<"-pthread">>)>>,
      Declare("t", "shared", "main.c")
          \o <<Option("o", Undefined, Undefined), SetStrip(<<"all">>), SetSymbols(<<"debug">>),
               AddRpathdirs(<<"lib">>), OptionEnd, SetStrip(<<"debug">>)>>,
      Declare("t", "binary", "main.c")
          \o <<Option("o", <<"d">>, <<"y">>), AddLdflags(<<"-pthread">>),
               AddRpathdirs(<<"lib">>), SetSymbols(<<"debug">>)>> }

InitScopes ==
    InitState({ << >>, <<Arg("a", <<"n">>)>>, <<Arg("plat", <<"mingw">>)>> },
              {NoEnv}, {Programs}, ScopeScripts)

NextScopes ==
    \/ _load_options_and_toolchains
    \/ ScriptRan /\ script_end
    \/ _handle_option
    \/ _declare_envs
    \/ _declare_clang
    \/ _declare_gcc
    \/ _declare_x86_64_w64_mingw32
    \/ _declare_i686_w64_mingw32
    \/ _check_platform
    \/ _check_toolchain
    \/ _check_options
    \/ _check_option
    \/ _load_targets
    \/ Scripted("option") /\ option(NextArgs[1][1], NextArgs[2], NextArgs[3])
    \/ Scripted("option_end") /\ option_end
    \/ Scripted("add_cfuncs") /\ add_option_input("cfuncs", NextArgs[1])
    \/ Scripted("set_config") /\ set_config(NextArgs[1][1], NextArgs[2])
    \/ Scripted("target") /\ target(NextArgs[1][1])
    \/ Scripted("set_kind") /\ set_kind(NextArgs[1][1])
    \/ Scripted("add_files") /\ add_files(NextArgs[1])
    \/ Scripted("add_defines") /\ add_defines(NextArgs[1])
    \/ Scripted("set_languages") /\ set_languages(NextArgs[1])
    \/ Scripted("add_ldflags") /\ add_ldflags(NextArgs[1])
    \/ Scripted("add_rpathdirs") /\ add_rpathdirs(NextArgs[1])
    \/ Scripted("set_strip") /\ set_strip(NextArgs[1])
    \/ Scripted("set_symbols") /\ set_symbols(NextArgs[1])
    \/ _generate_configfiles
    \/ _gmake_add_header
    \/ _gmake_add_switches
    \/ _gmake_add_toolchains
    \/ _gmake_add_flags
    \/ _gmake_add_build_targets
    \/ _gmake_add_build_target
    \/ _gmake_add_clean
    \/ _gmake_add_install
    \/ _gmake_add_run
    \/ _gmake_done

SpecScopes == InitScopes /\ [][NextScopes]_vars

-----------------------------------------------------------------------------
(* SpecExit: how the process ends, over command lines, hosts and scripts *)

\* a project that generates, one with an unknown target kind, an empty one
ExitScripts ==
    { Declare("t", "binary", "main.c"),
      <<Target("t"), SetKind("bundle"), AddFiles(<<"main.c">>)>>,
      << >> }

InitExit ==
    InitState({ << >>, <<Arg("help", <<"--help">>)>>, <<Arg("version", <<"--version">>)>>,
                <<Arg("mode", <<"debug">>), Arg("version", <<"--version">>)>>,
                <<Arg("jobs", <<"4">>)>>, <<Arg("plat", <<"mingw">>)>>,
                <<Arg("generator", <<"ninja">>)>>, <<Arg("generator", <<"cmake">>)>>,
                <<Arg("generator", <<"gmake">>), Arg("toolchain", <<"clang">>)>> },
              {NoEnv},
              { Programs, Programs \ {"make"}, Programs \cup {"ninja"}, {"make"},
                {"make", "ar"} },
              ExitScripts)

NextExit ==
    \/ _load_options_and_toolchains
    \/ ScriptRan /\ script_end
    \/ _handle_option
    \/ _declare_envs
    \/ _declare_clang
    \/ _declare_gcc
    \/ _declare_x86_64_w64_mingw32
    \/ _declare_i686_w64_mingw32
    \/ _check_platform
    \/ _check_toolchain
    \/ _check_options
    \/ _load_targets
    \/ Scripted("target") /\ target(NextArgs[1][1])
    \/ Scripted("set_kind") /\ set_kind(NextArgs[1][1])
    \/ Scripted("add_files") /\ add_files(NextArgs[1])
    \/ _generate_configfiles
    \/ _gmake_add_header
    \/ _gmake_add_switches
    \/ _gmake_add_toolchains
    \/ _gmake_add_flags
    \/ _gmake_add_build_targets
    \/ _gmake_add_build_target
    \/ _gmake_add_clean
    \/ _gmake_add_install
    \/ _gmake_add_run
    \/ _gmake_done

SpecExit == InitExit /\ [][NextExit]_vars

-----------------------------------------------------------------------------
(* SpecTranslate: the flag translator alone, applied to one input *)

\* an input of the translator
Translate(toolkind, toolname, itemname, values) ==
    [toolkind |-> toolkind, toolname |-> toolname, itemname |-> itemname, values |-> values]

\* the value lists given to the translator: every value of the mapping
\* table, values it does not have, and lists of several tokens
TranslatedValues ==
    [ defines       |-> { <<"X">>, <<"A=1", "B=\"x\"">> },
      udefines      |-> { <<"X">>, <<"X", "Y">> },
      includedirs   |-> { <<"inc">>, <<"a/b", "c">> },
      linkdirs      |-> { <<"libs">> },
      links         |-> { <<"m">>, <<"z", "m">> },
      syslinks      |-> { <<"dl">>, <<"pthread", "dl">> },
      frameworks    |-> { <<"Cocoa">> },
      frameworkdirs |-> { <<"fw">> },
      rpathdirs     |-> { <<"/opt/lib">>, <<"@loader_path/lib">>, <<"$ORIGIN/lib">>,
                          <<"@loader_path">>, <<"a", "$ORIGIN">> },
      symbols       |-> { <<"debug">>, <<"hidden">>, <<"none">>, <<"debug", "hidden">> },
      strip         |-> { <<"debug">>, <<"all">>, <<"some">>, <<"all", "debug">> },
      warnings      |-> { <<"all">>, <<"more">>, <<"less">>, <<"allextra">>, <<"everything">>,
                          <<"error">>, <<"none">>, <<"pedantic">>,
                          <<"all", "pedantic", "error">> },
      optimizes     |-> { <<"fast">>, <<"faster">>, <<"fastest">>, <<"smallest">>,
                          <<"aggressive">>, <<"none">>, <<"size">>,
                          <<"none", "size", "smallest">> },
      languages     |-> { <<"ansi">>, <<"c89">>, <<"gnu89">>, <<"c99">>, <<"gnu99">>,
                          <<"c11">>, <<"gnu11">>, <<"c17">>, <<"gnu17">>,
                          <<"c++98">>, <<"cxx98">>, <<"gnu++98">>, <<"gnuxx98">>,
                          <<"c++11">>, <<"cxx11">>, <<"gnu++11">>, <<"gnuxx11">>,
                          <<"c++14">>, <<"cxx14">>, <<"gnu++14">>, <<"gnuxx14">>,
                          <<"c++17">>, <<"cxx17">>, <<"gnu++17">>, <<"gnuxx17">>,
                          <<"c++1z">>, <<"cxx1z">>, <<"gnu++1z">>, <<"gnuxx1z">>,
                          <<"c++2a">>, <<"cxx2a">>, <<"gnu++2a">>, <<"gnuxx2a">>,
                          <<"c++20">>, <<"cxx20">>, <<"gnu++20">>, <<"gnuxx20">>,
                          <<"c++99">>, <<"cxx03">>, <<"gnu++03">>, <<"c2x">>,
                          <<"c99", "c++17">>, <<"gnu++14", "c2x", "c11">> },
      cxflags       |-> { <<"-O2">> } ]

TranslateInputs ==
    { Translate(toolkind, toolname, itemname, values) :
          toolkind \in {"cc", "cxx", "mm", "mxx", "as", "ld"},
          toolname \in {"gcc", "gxx", "clang", "clangxx", "ar"},
          itemname \in DOMAIN TranslatedValues,
          values \in UNION { TranslatedValues[i] : i \in DOMAIN TranslatedValues } }

InitTranslate ==
    InitVars("translate", {"linux", "macosx", "mingw"},
             { in \in TranslateInputs : in.values \in TranslatedValues[in.itemname] },
             {<< >>}, {NoEnv}, {Programs}, {<< >>})

TranslateFrame ==
    UNCHANGED <<exitcode, argi, ncalls, last_call, phasevars, maps, listvars, scopevars,
                platvars, hostvars, configured, makefile, configfiles, gen_queue, pure_in,
                probevars>>

\* _get_abstract_flag_for_gcc_clang applied to the first value
translate ==
    /\ pc = "translate"
    /\ pure_out' = _get_abstract_flag_for_gcc_clang(pure_in.toolkind, pure_in.toolname,
                                                    pure_in.itemname, Head(pure_in.values))
    /\ pc' = "translated"
    /\ TranslateFrame

\* _get_abstract_flags applied to the values
translate_all ==
    /\ pc = "translate"
    /\ pure_out' = _get_abstract_flags(pure_in.toolkind, pure_in.toolname,
                                       pure_in.itemname, pure_in.values)
    /\ pc' = "translated"
    /\ TranslateFrame

NextTranslate ==
    \/ translate
    \/ translate_all

SpecTranslate == InitTranslate /\ [][NextTranslate]_vars

-----------------------------------------------------------------------------
(* SpecMap: the named maps alone, under sequences of _map_set and
   _map_remove statements as test/map.js makes them *)

MaxMapOps == 4

MapOp(op, name, key, value) == [op |-> op, name |-> name, key |-> key, value |-> value]

\* the statements: writes to three keys of myMap and one key of a second
\* map, and a remove on a map that is never written
MapOps ==
    { MapOp("set", "myMap", "name", value) : value \in {<<"Alice">>, <<"Bob">>} }
    \cup { MapOp("set", "myMap", "age", <<"18">>), MapOp("set", "myMap", "gender", <<"Female">>) }
    \cup { MapOp("remove", "myMap", key, Undefined) : key \in {"name", "age", "gender"} }
    \cup { MapOp("set", "other", "name", <<"Alice">>),
           MapOp("remove", "other", "name", Undefined),
           MapOp("remove", "none", "name", Undefined) }

InitMap ==
    InitVars("map_js", {""}, {<< >>}, {<< >>}, {NoEnv}, {Programs}, {<< >>})

MapFrame ==
    UNCHANGED <<pc, exitcode, argi, ncalls, last_call, phasevars, listvars, scopevars,
                platvars, hostvars, configured, makefile, configfiles, gen_queue, pure_out,
                probevars>>

\* one _map_set statement; pure_in keeps the statements made so far
map_js_set ==
    /\ pc = "map_js"
    /\ Len(pure_in) < MaxMapOps
    /\ \E o \in MapOps :
           /\ o.op = "set"
           /\ maps' = _map_set(maps, o.name, o.key, o.value)
           /\ pure_in' = Append(pure_in, o)
    /\ MapFrame

\* one _map_remove statement
map_js_remove ==
    /\ pc = "map_js"
    /\ Len(pure_in) < MaxMapOps
    /\ \E o \in MapOps :
           /\ o.op = "remove"
           /\ maps' = _map_remove(maps, o.name, o.key)
           /\ pure_in' = Append(pure_in, o)
    /\ MapFrame

NextMap ==
    \/ map_js_set
    \/ map_js_remove

SpecMap == InitMap /\ [][NextMap]_vars

-----------------------------------------------------------------------------
(* Properties *)

Flags == <<_loading_options, _loading_toolchains, _loading_targets>>

\* the detection phase: _check_platform, _check_toolchain, _check_options
DetectionPcs == {"check_platform", "check_toolchain", "check_options", "checking"}

\* the sub-map of one store ("options", "targets", "toolchains")
Store(m, name) == IF name \in DOMAIN m THEN m[name] ELSE NoMap

\* the elements of a sequence
Range(seq) == {seq[i] : i \in 1..Len(seq)}

\* this step is a script API call; last_call' tells which
IsCall == ncalls' = ncalls + 1

\* C1, as the phase table states it: the flags are (true, true, false) while
\* options and toolchains are loaded, (false, false, false) throughout the
\* detection phase, and (false, false, true) while targets are loaded.
C1_PhaseTableAsStated ==
    /\ pc = "load_options" => Flags = <<TRUE, TRUE, FALSE>>
    /\ pc \in DetectionPcs => Flags = <<FALSE, FALSE, FALSE>>
    /\ pc = "load_targets" => Flags = <<FALSE, FALSE, TRUE>>

\* C1, what the program does: nothing clears the options and toolchains flags
\* before _load_targets, so the flags are (true, true, false) while options
\* and toolchains are loaded and still so throughout the detection phase, and
\* (false, false, true) while targets are loaded; no other combination is
\* reachable while a script or a probe runs.
C1_PhaseTable ==
    /\ pc \in {"load_options"} \cup DetectionPcs => Flags = <<TRUE, TRUE, FALSE>>
    /\ pc = "load_targets" => Flags = <<FALSE, FALSE, TRUE>>

\* an option probe has run, in the detection phase, under (true, true, false)
C1_Witness ==
    /\ pc = "checking"
    /\ probes # << >>
    /\ Flags = <<TRUE, TRUE, FALSE>>

TargetOnlyFns == {"target", "set_kind", "add_files", "add_deps", "set_configvar"}
TargetOrOptionFns == {"add_defines", "add_links", "add_syslinks", "set_default"}
OptionSideFns == {"option", "toolchain", "set_toolset", "set_showmenu", "set_description"}
                     \cup {"add_" \o key : key \in OptionInputKeys}

\* C2: a mis-phased registration call is a silent no-op.  While options and
\* toolchains are loaded, a target-side call (target, set_kind, add_files,
\* add_deps, set_configvar, and add_defines/add_links/add_syslinks/set_default
\* outside an option scope) returns without raising and leaves the targets
\* store, the list of targets and the collected toolkinds unchanged; while
\* targets are loaded, option, toolchain, set_toolset and the option-only
\* setters return without raising and leave the options store, the list of
\* options and the toolchains store unchanged.
C2_MisphasedCallIsNoop ==
    [][ IsCall =>
          /\ ( /\ pc = "load_options"
               /\ \/ last_call'.fn \in TargetOnlyFns
                  \/ last_call'.fn \in TargetOrOptionFns /\ _xmake_sh_option_current = "" )
             => /\ pc' = "load_options"
                /\ Store(maps', "targets") = Store(maps, "targets")
                /\ _xmake_sh_targets' = _xmake_sh_targets
                /\ _targets_toolkinds' = _targets_toolkinds
          /\ ( pc = "load_targets" /\ last_call'.fn \in OptionSideFns )
             => /\ pc' = "load_targets"
                /\ Store(maps', "options") = Store(maps, "options")
                /\ _xmake_sh_options' = _xmake_sh_options
                /\ Store(maps', "toolchains") = Store(maps, "toolchains")
      ]_vars

\* option("a") was called while targets are loaded: it opened the scope and
\* declared nothing
C2_Witness ==
    /\ pc = "load_targets"
    /\ last_call.fn = "option"
    /\ _xmake_sh_option_current = "a"
    /\ ~_has_option(maps, "a")
    /\ _xmake_sh_options = << >>

\* detection is over: the last option has been checked
AfterDetection == pc \in {"load_targets", "generate"}

Probed(name) == \E i \in DOMAIN probes : probes[i].name = name

ProbingInputs == OptionInputKeys \cup {"links", "syslinks"}

HasProbingInput(name) ==
    \E key \in ProbingInputs : test_nz(_get_option_item(maps, name, key))

DefaultOf(name) == _get_option_item(maps, name, "default")

\* C3, as stated: every declared option, whatever its showmenu setting, is
\* probed during detection if and only if its default is empty and at least
\* one of its probing inputs is non-empty.
C3_ProbedIffNoDefaultAndInput ==
    \A name \in Range(_xmake_sh_options) :
        /\ Probed(name) => test_z(DefaultOf(name)) /\ HasProbingInput(name)
        /\ AfterDetection /\ test_z(DefaultOf(name)) /\ HasProbingInput(name) => Probed(name)

\* C3, what the program does: a declared option is probed during detection
\* if and only if its showmenu is unset, empty or false, its default is empty
\* and at least one of its probing inputs is non-empty; an option whose
\* showmenu is set to a true value is never probed.
C3_ProbedIffHiddenNoDefaultAndInput ==
    \A name \in Range(_xmake_sh_options) :
        LET should == /\ ~Truthy(_get_option_item(maps, name, "showmenu"))
                      /\ test_z(DefaultOf(name))
                      /\ HasProbingInput(name)
        IN  /\ Probed(name) => should
            /\ AfterDetection /\ should => Probed(name)

\* detection is over; option a has set_showmenu(true), no default and a
\* probing input, and was not probed
C3_Witness ==
    /\ AfterDetection
    /\ "a" \in Range(_xmake_sh_options)
    /\ _get_option_item(maps, "a", "showmenu") = True
    /\ test_z(DefaultOf("a"))
    /\ HasProbingInput("a")
    /\ ~Probed("a")

OnCommandLine(name) == \E i \in DOMAIN argv : argv[i].name = name

\* C4: for every option with a non-empty default (the boolean false included)
\* that is neither overridden on the command line nor given to set_config, no
\* probe is ever run, and the value is_config/has_config read while targets
\* are loaded is the default.
C4_DefaultedOptionKeepsDefault ==
    \A name \in Range(_xmake_sh_options) :
        ( test_nz(DefaultOf(name)) /\ ~OnCommandLine(name) /\ name \notin configured )
        => /\ ~Probed(name)
           /\ _get_option_value(maps, name) = DefaultOf(name)
           /\ _loading_targets =>
                 /\ is_config(name, DefaultOf(name))
                 /\ has_config(name) = _is_enabled(DefaultOf(name))

\* targets are loaded; option a has the default false and a probing input,
\* was not probed, and reads as false
C4_Witness ==
    /\ pc = "load_targets"
    /\ "a" \in Range(_xmake_sh_options)
    /\ DefaultOf("a") = False
    /\ HasProbingInput("a")
    /\ ~OnCommandLine("a") /\ "a" \notin configured
    /\ probes = << >>
    /\ is_config("a", False)

KindInputsEmpty(name, kind) ==
    \A item \in {"funcs", "includes", "types", "snippets"} :
        test_z(_get_option_item(maps, name, kind \o item))

\* C5: a K snippet check of an option whose <K>funcs, <K>includes, <K>types
\* and <K>snippets are all empty returns success, without creating a
\* temporary file or running the compiler.
C5_EmptyKindCheckSucceeds ==
    \A i \in DOMAIN probes :
        KindInputsEmpty(probes[i].name, probes[i].kind)
        => /\ probes[i].ok
           /\ probes[i].tmpfile = ""
           /\ ~probes[i].compiled

\* C6: an option with no default whose probing inputs are C inputs and links
\* only, and whose C snippet compiled and linked, has the value true when
\* probing is over, and has_config(name) is true while targets are loaded.
C6_CInputsOptionEnabled ==
    \A name \in Range(_xmake_sh_options) :
        ( /\ pc = "load_targets"
          /\ name \notin configured
          /\ test_z(DefaultOf(name))
          /\ ~KindInputsEmpty(name, "c")
          /\ KindInputsEmpty(name, "cxx")
          /\ test_nz(_get_option_item(maps, name, "links"))
          /\ \E i \in DOMAIN probes :
                 /\ probes[i].name = name /\ probes[i].kind = "c"
                 /\ probes[i].compiled /\ probes[i].linked /\ probes[i].exit = 0 )
        => /\ _get_option_item(maps, name, "value") = True
           /\ has_config(name)

\* C7: when the compile or link command of a probe exits non-zero, the
\* configuration does not abort, and once the loop has moved past the option
\* its value is false.
C7_ProbeFailureIsSoft ==
    \A i \in DOMAIN probes :
        probes[i].exit # 0
        => /\ pc # "aborted"
           /\ probes[i].name \notin Range(check_queue)
                 => _get_option_item(maps, probes[i].name, "value") = False

\* C8: whenever a probe has returned, and after detection, no file created
\* while probing is left.
C8_NoTemporaryFileRemains == pc # "aborted" => files = {}

SetMin(S) == CHOOSE x \in S : \A y \in S : x <= y

\* the candidate of index idx that a toolchain declares for a kind
Candidate(m, tcname, kind, idx) ==
    _get_toolchain_toolset(m, tcname,
                           IF idx # 0 THEN kind \o "_" \o ToString(idx) ELSE kind)

\* the program's own probe succeeds: `program --version` exits 0, or for an
\* archiver the ar test does
OwnProbeOk(program) == path_toolname(program) # "" /\ ExitOf(program) = 0

PassingCandidates(m, tcname, kind) ==
    { idx \in 0..MaxToolsetIndex :
          /\ test_nz(Candidate(m, tcname, kind, idx))
          /\ OwnProbeOk(StrOf(Candidate(m, tcname, kind, idx))) }

Acceptable(m, tcname) ==
    \A kind \in Range(ToolKinds) : PassingCandidates(m, tcname, kind) # {}

\* the toolchains detection tries, in order
TriedToolchains ==
    IF test_nz(_target_toolchain) THEN _target_toolchain
    ELSE IF _target_plat = "macosx" THEN <<"envs", "clang", "gcc">>
    ELSE IF _target_plat = "mingw"
    THEN IF _target_arch = "i386" THEN <<"i686_w64_mingw32">> ELSE <<"x86_64_w64_mingw32">>
    ELSE <<"envs", "gcc", "clang">>

\* C9: detection (on a host with make) accepts a toolchain if and only if
\* each of the eight kinds has a declared candidate whose own probe succeeds:
\* it takes the first such toolchain it tries and fails when there is none;
\* after acceptance toolset_k is, for each kind k, the lowest-indexed
\* candidate whose own probe succeeds.
C9_AcceptedIffOwnProbesSucceed ==
    [][ ( pc = "check_toolchain" /\ "make" \in host_ok )
        => LET good == { i \in DOMAIN TriedToolchains :
                             Acceptable(maps, TriedToolchains[i]) }
           IN  IF good = {} THEN pc' \in {"check_toolchain", "aborted"}
               ELSE LET tcname == TriedToolchains[SetMin(good)]
                    IN  \/ pc' = "check_toolchain"
                        \/ /\ pc' = "check_options"
                           /\ _target_toolchain' = <<tcname>>
                           /\ \A kind \in Range(ToolKinds) :
                                  _get_toolchain_toolset(maps', tcname, kind)
                                      = Candidate(maps, tcname, kind,
                                            SetMin(PassingCandidates(maps, tcname, kind)))
      ]_vars

\* the key of an item of the target in scope (the root scope when none is)
TargetScopeKey(key) ==
    IF _xmake_sh_target_current # "" THEN _xmake_sh_target_current \o "_" \o key
    ELSE "__root_" \o key

\* a blank-separated list with the tokens appended
Appended(old, tokens) ==
    IF tokens = << >> THEN old
    ELSE IF old = Undefined THEN tokens
    ELSE old \o tokens

NotMarker(arg) == arg # "{public}"

\* C10: an add_defines call made while targets are loaded, outside an option
\* scope, appends all its arguments other than {public}, in argument order,
\* to defines of the target in scope (or of the root scope); it appends them
\* all to defines_public if and only if {public} is among the arguments,
\* wherever it stands, and otherwise leaves defines_public unchanged.
C10_AddDefinesPublic ==
    [][ ( /\ IsCall
          /\ last_call'.fn = "add_defines"
          /\ pc = "load_targets"
          /\ _xmake_sh_option_current = "" )
        => LET args   == last_call'.args[1]
               others == SelectSeq(args, NotMarker)
               marked == \E i \in DOMAIN args : args[i] = "{public}"
               key    == TargetScopeKey("defines")
               pubkey == TargetScopeKey("defines_public")
           IN  /\ pc' = "load_targets"
               /\ _map_get(maps', "targets", key)
                      = Appended(_map_get(maps, "targets", key), others)
               /\ _map_get(maps', "targets", pubkey)
                      = IF marked THEN Appended(_map_get(maps, "targets", pubkey), others)
                        ELSE _map_get(maps, "targets", pubkey)
      ]_vars

\* add_defines(A, B, {public}, C) was called on target t while targets are
\* loaded: defines and defines_public are both "A B C"
C10_Witness ==
    /\ pc = "load_targets"
    /\ last_call = [fn |-> "add_defines", args |-> << <<"A", "B", "{public}", "C">> >>]
    /\ _xmake_sh_target_current = "t"
    /\ _xmake_sh_option_current = ""
    /\ _map_get(maps, "targets", "t_defines") = <<"A", "B", "C">>
    /\ _map_get(maps, "targets", "t_defines_public") = <<"A", "B", "C">>

-----------------------------------------------------------------------------
(* Properties of the generated flags and rules, stated on the root script *)

\* the arguments, other than {public}, of the calls of fn that the script
\* makes in the scope of target tname ("" is the root scope); with public,
\* of the calls that have {public} among their arguments only
RECURSIVE ScriptArgs(_, _, _, _, _)
ScriptArgs(script, scope, tname, fn, public) ==
    IF script = << >> THEN << >>
    ELSE IF Head(script).fn = "target"
    THEN ScriptArgs(Tail(script), Head(script).args[1][1], tname, fn, public)
    ELSE IF Head(script).fn = "target_end"
    THEN ScriptArgs(Tail(script), "", tname, fn, public)
    ELSE (IF /\ Head(script).fn = fn
             /\ scope = tname
             /\ public => \E i \in DOMAIN Head(script).args[1] :
                              Head(script).args[1][i] = "{public}"
          THEN SelectSeq(Head(script).args[1], NotMarker)
          ELSE << >>)
             \o ScriptArgs(Tail(script), scope, tname, fn, public)

\* what target tname declared with fn, and what it declared {public}
Declared(tname, fn)       == ScriptArgs(xmake_js, "", tname, fn, FALSE)
DeclaredPublic(tname, fn) == ScriptArgs(xmake_js, "", tname, fn, TRUE)

\* the targets the script declares
DeclaredTargets ==
    { xmake_js[i].args[1][1] : i \in { j \in DOMAIN xmake_js : xmake_js[j].fn = "target" } }

\* the kind the script gives a target: its own set_kind, else the root's
DeclaredKind(tname) ==
    IF Declared(tname, "set_kind") # << >>
    THEN Declared(tname, "set_kind")[Len(Declared(tname, "set_kind"))]
    ELSE IF Declared("", "set_kind") # << >>
    THEN Declared("", "set_kind")[Len(Declared("", "set_kind"))]
    ELSE ""

IsLibrary(tname) == DeclaredKind(tname) \in {"static", "shared"}

\* the names a target lists in add_deps (the root's deps come first)
DeclaredDeps(tname) == Range(Declared("", "add_deps")) \cup Range(Declared(tname, "add_deps"))

\* the libraries reachable from a target through deps, passing through
\* static and shared targets only
RECURSIVE LibrariesFrom(_)
LibrariesFrom(found) ==
    IF \A t \in found : \A d \in DeclaredDeps(t) : IsLibrary(d) => d \in found
    THEN found
    ELSE LibrariesFrom(found \cup { d \in UNION { DeclaredDeps(t) : t \in found } :
                                       IsLibrary(d) })

LibraryDepsOf(tname) == LibrariesFrom({ d \in DeclaredDeps(tname) : IsLibrary(d) })

CompileFlagnames == {"cflags", "cxxflags", "asflags", "mflags", "mxxflags"}
LinkFlagnames    == {"ldflags", "shflags"}

\* the flag variables of a target emitted so far, of the given flag names
EmittedFlags(tname, flagnames) ==
    { i \in DOMAIN makefile :
          /\ makefile[i].sec = "flags"
          /\ \E f \in flagnames : makefile[i].lhs = tname \o "_" \o f }

\* the switch the mapping table gives a value of an item as the script
\* declares it: double quotes escaped, a directory as its path from the
\* project directory
ItemFlag(itemname, value) ==
    CASE itemname = "defines"     -> "-D" \o string_replace(value, "\"", "\\\"")
      [] itemname = "udefines"    -> "-U" \o value
      [] itemname = "includedirs" -> "-I" \o ProjectPath(value)
      [] itemname = "linkdirs"    -> "-L" \o ProjectPath(value)
      [] itemname = "links"       -> "-l" \o value
      [] itemname = "syslinks"    -> "-l" \o value
      [] itemname = "frameworks"  -> "-framework " \o value

\* the flag variables an item goes into
ItemFlagnames(itemname) ==
    IF itemname \in {"defines", "udefines", "includedirs"} THEN CompileFlagnames
    ELSE IF itemname \in {"linkdirs", "links", "syslinks"} THEN LinkFlagnames
    ELSE CompileFlagnames \cup LinkFlagnames

PublicItemnames == {"defines", "udefines", "includedirs", "linkdirs", "links", "syslinks",
                    "frameworks"}

\* an uncaught Error whose message starts with the given words was printed
ErrorPrinted(words) ==
    \E i \in DOMAIN console : console[i][1] = "Error" /\ startsWith(console[i][2], words)

\* C11: for every target T and every itemname of defines, udefines,
\* includedirs, linkdirs, links, syslinks, frameworks, each flag variable
\* emitted for T holds the switch of every value T declared with
\* add_<itemname> and of every value a static or shared library dep of T
\* declared {public}: -UX in the compile flags for add_udefines(X), -LD in the
\* ld / sh flags for add_linkdirs(D); and computing the flags never fails
\* with "unknown itemname".
C11_FlagsOfOwnAndPublicValues ==
    /\ \A tname \in DeclaredTargets : \A itemname \in PublicItemnames :
           \A i \in EmittedFlags(tname, ItemFlagnames(itemname)) :
               /\ \A v \in Range(Declared(tname, "add_" \o itemname)) :
                      ItemFlag(itemname, v) \in Range(makefile[i].rhs)
               /\ \A dep \in LibraryDepsOf(tname) :
                      \A v \in Range(DeclaredPublic(dep, "add_" \o itemname)) :
                          ItemFlag(itemname, v) \in Range(makefile[i].rhs)
    /\ ~ErrorPrinted("unknown itemname")


\* the include directories a target's compile flags may name: its own, the
\* root scope's, and what its library deps declared {public}
IncludedirsFor(tname) ==
    Range(Declared(tname, "add_includedirs")) \cup Range(Declared("", "add_includedirs"))
        \cup UNION { Range(DeclaredPublic(dep, "add_includedirs")) :
                         dep \in LibraryDepsOf(tname) }

RECURSIVE DepsFrom(_)
DepsFrom(found) ==
    IF \A t \in found : DeclaredDeps(t) \subseteq found THEN found
    ELSE DepsFrom(found \cup UNION { DeclaredDeps(t) : t \in found })

\* no target of the script reaches itself through deps
AcyclicDeps == \A t \in DeclaredTargets : t \notin DepsFrom(DeclaredDeps(t))

NoDuplicates(seq) == \A i, j \in DOMAIN seq : i # j => seq[i] # seq[j]

\* the library deps remembered for a target (Undefined before they are computed)
StoredLibrarydeps(tname) == _map_get(maps, "targets", tname \o "_librarydeps")

\* C13: over an acyclic deps graph, the library deps computed for a target T
\* are exactly the targets reachable from T through deps passing only through
\* static and shared targets: declared targets, none of them a binary, each
\* once; __none__ is remembered for an empty list, and a second computation
\* returns the remembered list and changes nothing.
C13_LibrarydepsExactlyReachable ==
    \A tname \in DeclaredTargets :
        ( AcyclicDeps /\ StoredLibrarydeps(tname) # Undefined )
        => LET librarydeps == IF StoredLibrarydeps(tname) = <<"__none__">> THEN << >>
                              ELSE StoredLibrarydeps(tname)
           IN  /\ StoredLibrarydeps(tname) # << >>
               /\ Range(librarydeps) = LibraryDepsOf(tname)
               /\ NoDuplicates(librarydeps)
               /\ \A dep \in Range(librarydeps) :
                      dep \in DeclaredTargets /\ DeclaredKind(dep) \in {"static", "shared"}
               /\ _get_target_librarydeps(maps, tname)
                      = [maps |-> maps, librarydeps |-> librarydeps, error |-> ""]


\* C14: computing the library deps of a target ends for every deps graph,
\* cyclic ones and a library that names itself included, by the resolver's
\* own doing: it returns, or raises its fatal error, and never recurses until
\* the engine's call stack is exhausted.
C14_ResolverEndsOnCycles == ~ErrorPrinted("Maximum call stack size exceeded")


\* every name a deps list of the store holds
StoredDeps ==
    UNION { Range(string_to_array(_get_target_item(maps, tname, "deps"))) :
                tname \in Range(_xmake_sh_targets) }

\* C15: when generation starts every name in every target's deps is a
\* declared target, and no rule of the Makefile has among its prerequisites
\* the file of a target that was never declared.
C15_DepsNameDeclaredTargets ==
    /\ pc = "generate" => StoredDeps \subseteq Range(_xmake_sh_targets)
    /\ \A i \in DOMAIN makefile :
           makefile[i].sec = "build"
               => \A dep \in StoredDeps \ Range(_xmake_sh_targets) :
                      _get_target_file(maps, dep) \notin Range(makefile[i].rhs)


\* the steps of _generate_build_file
GenerationPcs == {"generate", "gmake_header", "gmake_switches", "gmake_toolchains",
                  "gmake_flags", "gmake_build", "gmake_install", "gmake_run"}

\* what the last call of a setter in a target's scope gave, else a default
SetOr(tname, fn, default) ==
    IF Declared(tname, fn) = << >> THEN default
    ELSE Declared(tname, fn)[Len(Declared(tname, fn))]

\* the file of a target as section 4.6 defines it, from what the script sets
ExpectedTargetFile(tname) ==
    LET kind      == DeclaredKind(tname)
        targetdir == SetOr(tname, "set_targetdir",
                           "build/" \o _target_plat \o "/" \o _target_arch
                                    \o "/" \o _target_mode)
        basename  == SetOr(tname, "set_basename", tname)
        prefix    == SetOr(tname, "set_prefixname",
                           IF kind \in {"static", "shared"} THEN "lib" ELSE "")
        ext       == SetOr(tname, "set_extension",
                           CASE kind = "static" -> ".a"
                             [] kind = "shared" ->
                                    IF _target_plat = "mingw" THEN ".dll" ELSE ".so"
                             [] kind = "binary" ->
                                    IF _target_plat = "mingw" THEN ".exe" ELSE ""
                             [] OTHER -> "")
        filename  == SetOr(tname, "set_filename", prefix \o basename \o ext)
    IN  path_normalize(targetdir \o "/" \o filename)

-----------------------------------------------------------------------------
(* Properties of the flag translator *)

\* the mapping table of section 4.3, row by row: the items whose flag is a
\* switch before the value
SwitchRows ==
    { <<"udefines", "-U">>, <<"includedirs", "-I">>, <<"linkdirs", "-L">>,
      <<"links", "-l">>, <<"syslinks", "-l">>, <<"frameworks", "-framework ">>,
      <<"frameworkdirs", "-F">> }

\* the rows with a fixed value, for a toolkind and a toolname on a platform
ValueRows(toolkind, toolname, plat) ==
    { <<"symbols", "debug", "-g">>, <<"symbols", "hidden", "-fvisibility=hidden">>,
      <<"strip", "debug", "-Wl,-S">>,
      <<"strip", "all", IF plat = "macosx" THEN "-Wl,-x" ELSE "-s">>,
      <<"warnings", "all", "-Wall">>, <<"warnings", "more", "-Wall">>,
      <<"warnings", "less", "-Wall">>, <<"warnings", "allextra", "-Wall -Wextra">>,
      <<"warnings", "everything", "-Wall -Wextra">>, <<"warnings", "error", "-Werror">>,
      <<"warnings", "none", "-w">>,
      <<"optimizes", "fast", "-O1">>, <<"optimizes", "faster", "-O2">>,
      <<"optimizes", "fastest", "-O3">>,
      <<"optimizes", "smallest", IF toolname \in {"clang", "clangxx"} THEN "-Oz" ELSE "-Os">>,
      <<"optimizes", "aggressive", "-Ofast">>, <<"optimizes", "none", "-O0">> }
    \cup ( IF toolkind \in {"cc", "mm"}
           THEN { <<"languages", "ansi", "-ansi">> }
                \cup { <<"languages", std \o yy, "-std=" \o std \o yy>> :
                           std \in {"c", "gnu"}, yy \in {"89", "99", "11", "17"} }
           ELSE IF toolkind \in {"cxx", "mxx"}
           THEN { <<"languages", alias \o yy, "-std=c++" \o yy>> :
                      alias \in {"c++", "cxx"},
                      yy \in {"98", "11", "14", "17", "1z", "2a", "20"} }
                \cup { <<"languages", alias \o yy, "-std=gnu++" \o yy>> :
                           alias \in {"gnu++", "gnuxx"},
                           yy \in {"98", "11", "14", "17", "1z", "2a", "20"} }
           ELSE {} )

TableItemnames ==
    { "defines", "udefines", "includedirs", "linkdirs", "links", "syslinks", "frameworks",
      "frameworkdirs", "rpathdirs", "symbols", "strip", "warnings", "optimizes",
      "languages" }

\* the flag the table gives a value, "" for a value it does not have
TableFlag(in, plat, value) ==
    IF in.itemname = "defines" THEN "-D" \o string_replace(value, "\"", "\\\"")
    ELSE IF \E row \in SwitchRows : row[1] = in.itemname
    THEN (CHOOSE row \in SwitchRows : row[1] = in.itemname)[2] \o value
    ELSE IF in.itemname = "rpathdirs"
    THEN IF in.toolname \in {"gcc", "gxx"}
         THEN "-Wl,-rpath='" \o replace(value, "@loader_path", "$$ORIGIN") \o "'"
         ELSE "-Xlinker -rpath -Xlinker " \o replace(value, "$ORIGIN", "@loader_path")
    ELSE IF \E row \in ValueRows(in.toolkind, in.toolname, plat) :
                row[1] = in.itemname /\ row[2] = value
    THEN (CHOOSE row \in ValueRows(in.toolkind, in.toolname, plat) :
              row[1] = in.itemname /\ row[2] = value)[3]
    ELSE ""

\* a languages value that the C++ table does not have and that starts with
\* c++ or cxx
FatalValue(in, plat, value) ==
    /\ in.itemname = "languages"
    /\ in.toolkind \in {"cxx", "mxx"}
    /\ startsWith(value, "c++") \/ startsWith(value, "cxx")
    /\ TableFlag(in, plat, value) = ""

NotEmptyFlag(flag) == flag # ""

\* C17: for each of gcc, gxx, clang and clangxx and every item of the mapping
\* table the translator returns the flag of the table for a value (-Os or
\* -Oz for smallest by toolname, -Wl,-x or -s for strip all by platform, the
\* -Wl,-rpath or the -Xlinker form of rpathdirs by toolname), and the batch
\* form returns the non-empty flags of its tokens in token order.
C17_TranslatorFollowsTable ==
    ( /\ pc = "translated"
      /\ pure_in.toolname \in {"gcc", "gxx", "clang", "clangxx"}
      /\ pure_in.itemname \in TableItemnames
      /\ \A i \in DOMAIN pure_in.values : ~FatalValue(pure_in, _target_plat, pure_in.values[i]) )
    => IF "flag" \in DOMAIN pure_out
       THEN pure_out = [flag  |-> TableFlag(pure_in, _target_plat, Head(pure_in.values)),
                        error |-> ""]
       ELSE pure_out = [flags |-> SelectSeq([i \in DOMAIN pure_in.values |->
                                                 TableFlag(pure_in, _target_plat,
                                                           pure_in.values[i])],
                                            NotEmptyFlag),
                        error |-> ""]

\* the batch form for clang on macOS: of none, size and smallest the flags
\* are -O0 and -Oz
C17_Witness ==
    /\ pc = "translated"
    /\ _target_plat = "macosx"
    /\ pure_in = Translate("cc", "clang", "optimizes", <<"none", "size", "smallest">>)
    /\ pure_out = [flags |-> <<"-O0", "-Oz">>, error |-> ""]


\* a languages value that starts with c++ or cxx and is no C++ standard of
\* the table
UnknownCxxLanguage(value) ==
    /\ startsWith(value, "c++") \/ startsWith(value, "cxx")
    /\ value \notin { alias \o yy : alias \in {"c++", "cxx"},
                                    yy \in {"98", "11", "14", "17", "1z", "2a", "20"} }

\* C18: a project in which some target has set_languages with a value that
\* starts with c++ or cxx and is not in the table (c++99) is not configured,
\* whatever source kinds its targets have: the run aborts with the
\* unknown-language-value error and never ends with a completed Makefile.
C18_UnknownCxxLanguageIsFatal ==
    ( \E tname \in DeclaredTargets :
          \E i \in DOMAIN Declared(tname, "set_languages") :
              UnknownCxxLanguage(Declared(tname, "set_languages")[i]) )
    => /\ pc # "exited"
       /\ pc = "aborted" => ErrorPrinted("unknown language value")

-----------------------------------------------------------------------------
(* Properties of the linker flags and of the phony rules *)

\* the linker of the Makefile is clang or clang++
ClangLinks ==
    \E i \in DOMAIN makefile :
        /\ makefile[i].sec = "toolchains"
        /\ makefile[i].lhs = "ld"
        /\ makefile[i].rhs \in {<<"clang">>, <<"clang++">>}

\* a flag is the rpath flag of a shared dep in the target's own directory:
\* as scenario S2 states it, or with the loader's directory as the mapping
\* table writes it ($$ORIGIN for gcc / g++, @loader_path for clang / clang++)
RpathFlag(flag, stated) ==
    IF ClangLinks
    THEN IF stated THEN startsWith(flag, "-Xlinker -rpath -Xlinker ")
         ELSE flag = "-Xlinker -rpath -Xlinker @loader_path"
    ELSE IF stated THEN flag = "-Wl,-rpath='@loader_path/.'"
    ELSE flag = "-Wl,-rpath='$$ORIGIN'"

IsRpathFlag(flag) == startsWith(flag, "-Wl,-rpath") \/ startsWith(flag, "-Xlinker -rpath")

\* the binary targets and their direct deps of a kind, both in the default
\* target directory and the dep with its default basename
DefaultDirDeps(kind) ==
    { <<tname, dep>> \in DeclaredTargets \X DeclaredTargets :
          /\ DeclaredKind(tname) = "binary"
          /\ dep \in Range(Declared(tname, "add_deps"))
          /\ DeclaredKind(dep) = kind
          /\ Declared(tname, "set_targetdir") = << >>
          /\ Declared(dep, "set_targetdir") = << >>
          /\ Declared(dep, "set_basename") = << >> }

\* the ld flags of a binary for its shared and static deps in the default
\* target directory
LinkerFlagsOfDeps(stated) ==
    /\ \A pair \in DefaultDirDeps("shared") : \A i \in EmittedFlags(pair[1], {"ldflags"}) :
           /\ ("-Lbuild/" \o _target_plat \o "/" \o _target_arch \o "/" \o _target_mode)
                  \in Range(makefile[i].rhs)
           /\ ("-l" \o pair[2]) \in Range(makefile[i].rhs)
           /\ \E j \in DOMAIN makefile[i].rhs : RpathFlag(makefile[i].rhs[j], stated)
    /\ \A pair \in DefaultDirDeps("static") : \A i \in EmittedFlags(pair[1], {"ldflags"}) :
           /\ ("-Lbuild/" \o _target_plat \o "/" \o _target_arch \o "/" \o _target_mode)
                  \in Range(makefile[i].rhs)
           /\ ("-l" \o pair[2]) \in Range(makefile[i].rhs)
           /\ ( \A dep \in LibraryDepsOf(pair[1]) : DeclaredKind(dep) # "shared" )
                  => \A j \in DOMAIN makefile[i].rhs : ~IsRpathFlag(makefile[i].rhs[j])

\* C19, as scenario S2 states it: the ld flags of a binary with a shared dep
\* in the same default target directory hold -L<buildir>/<plat>/<arch>/<mode>,
\* -l<dep> and the rpath flag -Wl,-rpath='@loader_path/.' for gcc / g++ or an
\* -Xlinker -rpath -Xlinker flag for clang / clang++.
C19_LinkerFlagsAsStated == LinkerFlagsOfDeps(TRUE)

\* C19: the ld flags of a binary with a shared dep in the same default target
\* directory hold -L<buildir>/<plat>/<arch>/<mode>, -l<dep> and the rpath flag
\* of the loader's own directory, -Wl,-rpath='$$ORIGIN' for gcc / g++ and
\* -Xlinker -rpath -Xlinker @loader_path for clang / clang++; with a static
\* dep they hold the -L and -l flags, and no rpath flag when no library dep
\* is shared.
C19_LinkerFlagsOfDeps == LinkerFlagsOfDeps(FALSE)

\* app depends on the shared foo and is linked by g++: app_ldflags is the
\* rpath flag of $$ORIGIN, -L of the default target directory and -lfoo
C19_Witness ==
    /\ <<"app", "foo">> \in DefaultDirDeps("shared")
    /\ ~ClangLinks
    /\ \E i \in EmittedFlags("app", {"ldflags"}) :
           makefile[i].rhs = <<"-Wl,-rpath='$$ORIGIN'", "-Lbuild/linux/x86_64/release", "-lfoo">>


\* the targets of the script in the order they are first opened
RECURSIVE TargetsInOrder(_, _)
TargetsInOrder(script, seen) ==
    IF script = << >> THEN seen
    ELSE TargetsInOrder(Tail(script),
             IF Head(script).fn = "target" /\ Head(script).args[1][1] \notin Range(seen)
             THEN Append(seen, Head(script).args[1][1])
             ELSE seen)

\* the default attribute of a target is enabled, or unset: what the target's
\* last set_default gave, else the root scope's
EnabledOrUnset(tname) ==
    SetOr(tname, "set_default", SetOr("", "set_default", "unset"))
        \in {"unset", "#true", "true", "yes", "y"}

\* C20: in the Makefile the prerequisites of default: are exactly the
\* declared targets whose default attribute is enabled or unset, and those of
\* all: are all declared targets, each once and in declaration order, also
\* when target(name) opened a name more than once.
C20_DefaultAndAllRules ==
    \A i \in DOMAIN makefile :
        makefile[i].sec = "phony"
            => /\ makefile[i].lhs = "default"
                      => makefile[i].rhs = SelectSeq(TargetsInOrder(xmake_js, << >>),
                                                     EnabledOrUnset)
               /\ makefile[i].lhs = "all"
                      => makefile[i].rhs = TargetsInOrder(xmake_js, << >>)


-----------------------------------------------------------------------------
(* The sections of the Makefile *)

\* the sections of the Makefile in the order they are written: the section
\* of each rule or variable line, recipe lines left out
RECURSIVE SectionsOf(_)
SectionsOf(lines) ==
    IF lines = << >> THEN << >>
    ELSE (IF Head(lines).sec = "recipe" THEN << >> ELSE <<Head(lines).sec>>)
             \o SectionsOf(Tail(lines))

\* the sections follow each other in the order of a list of section names
InOrder(lines, order) ==
    LET secs     == SectionsOf(lines)
        Rank(sec) == CHOOSE r \in 1..Len(order) : order[r] = sec
    IN  /\ \A i \in DOMAIN secs : \E r \in DOMAIN order : order[r] = secs[i]
        /\ \A i, j \in DOMAIN secs : i < j => Rank(secs[i]) <= Rank(secs[j])

\* a step that writes to the Makefile either creates it with the header, and
\* no earlier step wrote to it, or appends lines other than the header to it
CreatedOnceThenAppended ==
    makefile' # makefile
        => \/ /\ makefile = << >>
              /\ makefile' = <<Line("header", "", << >>)>>
           \/ /\ makefile # << >>
              /\ Len(makefile') > Len(makefile)
              /\ SubSeq(makefile', 1, Len(makefile)) = makefile
              /\ \A i \in (Len(makefile) + 1)..Len(makefile') :
                     makefile'[i].sec # "header"

\* the order of section 4.8, and the order of _generate_for_gmake
StatedSections ==
    <<"header", "switches", "toolchains", "flags", "phony", "build",
      "run", "clean", "install">>
WrittenSections ==
    <<"header", "switches", "toolchains", "flags", "phony", "build",
      "clean", "install", "run">>

\* C21 as stated: the Makefile is created once, by the header write, every
\* later write appends to it, and the sections come in the order header,
\* verbosity switch, toolchain variables, flag variables, default/all,
\* target rules, run rule, clean rule, install rule.
C21_SectionsAsStated ==
    [][CreatedOnceThenAppended /\ InOrder(makefile', StatedSections)]_vars

\* C21: the Makefile is created once, by the header write, every later write
\* appends to it, and the sections come in the order header, verbosity
\* switch, toolchain variables, flag variables, default/all, target rules,
\* clean rule, install rule, run rule.
C21_SectionsInOrder ==
    [][CreatedOnceThenAppended /\ InOrder(makefile', WrittenSections)]_vars

\* a run that ended with a whole Makefile, all nine sections written
C21_Witness ==
    /\ pc = "exited" /\ exitcode = <<0>>
    /\ \A r \in DOMAIN WrittenSections :
           \E i \in DOMAIN makefile : makefile[i].sec = WrittenSections[r]
    /\ makefile[Len(makefile)].sec \in {"run", "recipe"}


-----------------------------------------------------------------------------
(* The install rule *)

\* the recipe lines of the install rule, right after it has been written
InstallRecipes ==
    LET rule == CHOOSE i \in DOMAIN makefile : makefile[i].sec = "install"
    IN  { makefile[i].rhs : i \in { j \in DOMAIN makefile : j > rule } }

\* the targets the install rule installs
InstalledTargets ==
    Range((CHOOSE line \in Range(makefile) : line.sec = "install").rhs)

\* where an entry src:root:prefix:filename of a target is to be copied to,
\* below the directory base
InstallDestination(base, entry) ==
    LET field    == string_split(entry, ":")
        subpath  == IF field[2] # "" THEN path_relative(field[2], field[1])
                    ELSE path_filename(field[1])
        named    == IF field[4] = "" THEN subpath
                    ELSE path_join(<<path_directory(subpath), field[4]>>)
    IN  path_join(<<base, field[3], named>>)

\* <installdir> of a target
InstalldirOf(tname) ==
    LET item == _get_target_item(maps, tname, "installdir")
    IN  IF test_z(item) THEN _install_prefix_default ELSE ValueString(item)

\* the install recipe copies every entry of an item of a target to its
\* destination below base
EntriesInstalled(tname, itemname, base) ==
    \A entry \in Range(string_to_array(_get_target_item(maps, tname, itemname))) :
        <<"@cp", "-p", string_split(entry, ":")[1], InstallDestination(base, entry)>>
            \in InstallRecipes

\* C22: for each headerfiles/installfiles entry src:root:prefix:filename of an
\* installed target the install recipe copies src to
\* <base>[/<prefix>]/<subpath of src relative to root> when root is not empty
\* and to <base>[/<prefix>]/<name of src> when it is, and when filename is
\* given the trailing name of the destination is filename, with and without
\* root; base is <installdir>/<includedir> for headerfiles and <installdir>
\* for installfiles.
C22_InstallDestinations ==
    pc = "gmake_run"
        => \A tname \in InstalledTargets :
               /\ EntriesInstalled(tname, "headerfiles",
                      path_join(<<InstalldirOf(tname), _install_includedir_default>>))
               /\ EntriesInstalled(tname, "installfiles", InstalldirOf(tname))


-----------------------------------------------------------------------------
(* The configfiles *)

\* the position of the first occurrence of a string from position i on, 0
\* when there is none
FirstAt(str, sub, i) ==
    LET At(j)  == SubSeq(str, j, j + Len(sub) - 1) = sub
        Places == i..(Len(str) - Len(sub) + 1)
    IN  IF \E j \in Places : At(j)
        THEN CHOOSE j \in Places : At(j) /\ \A k \in Places : k < j => ~At(k)
        ELSE 0

\* a text with each ${define X} replaced by the undef comment for X
RECURSIVE UndefSwept(_)
UndefSwept(content) ==
    LET Swept(i, j) ==
            SubSeq(content, 1, i - 1)
                \o "/*#undef " \o SubSeq(content, i + Len("${define "), j - 1) \o "*/"
                \o UndefSwept(SubSeq(content, j + 1, Len(content)))
        From(i) == IF i = 0 \/ FirstAt(content, "}", i) = 0 THEN content
                   ELSE Swept(i, FirstAt(content, "}", i))
    IN  From(FirstAt(content, "${define ", 1))

\* the configfiles of the project: target, template and output path
GeneratedPairs == Range(ConfigfilesOf(maps, _xmake_sh_targets))

\* C23: a generated configfile contains no ${define X} placeholder: it is
\* the template after the substitutions of the target, with every
\* ${define X} that they left replaced by the undef comment for X and all
\* other text unchanged.
C23_NoDefinePlaceholderRemains ==
    pc = "gmake_header"
        => \A pair \in GeneratedPairs :
               LET Output(path) ==
                       /\ path \in DOMAIN configfiles
                       /\ ~string_contains(configfiles[path], "${define ")
                       /\ \E now \in Clock :
                              configfiles[path] =
                                  UndefSwept(_io_replace_file(
                                      Templates[pair.configfile],
                                      ConfigfilePatterns(maps, pair.target,
                                          Templates[pair.configfile], now)))
               IN  Output(ConfigfilePath(maps, pair.target, pair.configfile))


\* the configfile of a pair is the same file after both runs
SameOutput(pair) ==
    LET Same(path) ==
            /\ path \in DOMAIN configfiles
            /\ path \in DOMAIN pure_out[1]
            /\ configfiles[path] = pure_out[1][path]
    IN  Same(ConfigfilePath(maps, pair.target, pair.configfile))

\* the second run has generated its configfiles
GeneratedTwice == pc = "gmake_header" /\ pure_out # << >>

\* C24 as stated: two runs on the same template, target attributes and
\* platform write the same configfiles, byte for byte, templates that
\* mention ${VERSION_BUILD} included.
C24_SameConfigfilesAsStated ==
    GeneratedTwice => \A pair \in GeneratedPairs : SameOutput(pair)

\* C24: two runs on the same template, target attributes and platform write
\* the same configfile whenever the target has no build date pattern or the
\* template does not mention ${VERSION_BUILD}, whatever the local time of
\* each run.
C24_SameConfigfiles ==
    GeneratedTwice
        => \A pair \in GeneratedPairs :
               ( \/ test_z(_get_target_item(maps, pair.target, "version_build"))
                 \/ ~string_contains(Templates[pair.configfile], "${VERSION_BUILD}") )
                   => SameOutput(pair)

\* a template that mentions ${VERSION_BUILD}, of a target without a build
\* date pattern, generated twice
C24_Witness ==
    /\ GeneratedTwice
    /\ \E pair \in GeneratedPairs :
           /\ test_z(_get_target_item(maps, pair.target, "version_build"))
           /\ string_contains(Templates[pair.configfile], "${VERSION_BUILD}")
           /\ string_contains(configfiles[ConfigfilePath(maps, pair.target, pair.configfile)],
                              "${VERSION_BUILD}")
           /\ SameOutput(pair)


-----------------------------------------------------------------------------
(* Options given on the command line *)

\* the value of --<name>=<value>, for an option that is on the command line
CommandLineValue(name) ==
    argv[CHOOSE i \in DOMAIN argv :
             argv[i].name = name /\ \A j \in DOMAIN argv : j > i => argv[j].name # name].value

\* C25: for every registered option passed on the command line as
\* --<option>=<value> (and not given to set_config by the script), the value
\* is_config and has_config read while targets are loaded is the
\* command-line value, whether or not the option has a default and whether
\* or not it has probing inputs.
C25_CommandLineValueIsRead ==
    \A name \in Range(_xmake_sh_options) :
        ( pc = "load_targets" /\ OnCommandLine(name) /\ name \notin configured )
        => /\ is_config(name, CommandLineValue(name))
           /\ has_config(name) = _is_enabled(CommandLineValue(name))


-----------------------------------------------------------------------------
(* Option values after the probing phase *)

\* the probing phase has finished: targets are loaded or the generation runs
ProbingFinished == pc \in {"load_targets", "gmake_done"} \cup GenerationPcs

OptionValues ==
    [name \in Range(_xmake_sh_options) |-> _get_option_item(maps, name, "value")]

\* the step evaluates a call of set_config
SetConfigStep == ncalls' = ncalls + 1 /\ last_call'.fn = "set_config"

\* C26, as stated: once the probing phase has finished, no call made by a
\* script during target loading, set_config included, and no step of the
\* generation changes the value of any option.
C26_OptionValuesFrozenAsStated ==
    [][ProbingFinished => OptionValues' = OptionValues]_vars

\* C26: once the probing phase has finished, no call made by a script during
\* target loading other than set_config, and no step of the generation,
\* changes the value of any option; set_config(name, value) makes value the
\* value of the option name and leaves every other option's value alone.
C26_OptionValuesFrozen ==
    [][ProbingFinished =>
         IF SetConfigStep
         THEN \A name \in Range(_xmake_sh_options) :
                  _get_option_item(maps, name, "value")' =
                      IF <<name>> = last_call'.args[1] THEN last_call'.args[2]
                      ELSE _get_option_item(maps, name, "value")
         ELSE OptionValues' = OptionValues]_vars

\* the generation has run to its end for a script that gave a probed option
\* to set_config while its targets were loaded, after other calls
C26_Witness ==
    /\ pc = "exited"
    /\ exitcode = <<0>>
    /\ makefile # << >>
    /\ \E name \in Range(_xmake_sh_options) :
           /\ Probed(name)
           /\ name \in configured
           /\ _get_option_item(maps, name, "value") = <<"n">>


-----------------------------------------------------------------------------
(* Exit codes *)

\* the process ends in this step with the code
ExitsWith(code) == pc' \in {"exited", "aborted"} /\ exitcode' = <<code>>

\* the names _handle_option knows besides the registered options
BuiltinArgs == {"help", "version", "plat", "arch", "mode", "toolchain", "generator"}
                   \cup OtherBuiltinArgs

\* the argument the loop over the command line takes next
ArgIs(names) == pc = "parse_args" /\ argi < Len(argv) /\ argv[argi + 1].name \in names

UnknownArg ==
    /\ pc = "parse_args" /\ argi < Len(argv)
    /\ argv[argi + 1].name \notin BuiltinArgs \cup Range(_xmake_sh_options)

CompilerPrograms == GccPrograms \cup GxxPrograms \cup ClangPrograms \cup ClangxxPrograms

\* every section of the Makefile has been written, and a rule for each target
MakefileComplete ==
    /\ \A sec \in {"header", "switches", "toolchains", "phony", "clean", "install", "run"} :
           \E i \in DOMAIN makefile : makefile[i].sec = sec
    /\ \A t \in Range(_xmake_sh_targets) :
           \E i \in DOMAIN makefile : makefile[i].sec = "build" /\ makefile[i].lhs = t

\* a step of the run and the exit code it gives, for a code after --help
ExitCodeStep(helpcode) ==
    /\ ArgIs({"version"}) => ExitsWith(2)
    /\ ArgIs({"help"}) => ExitsWith(helpcode)
    /\ UnknownArg => ExitsWith(1)
    /\ ( pc = "check_toolchain" /\ _project_generator = "gmake" /\ "make" \notin host_ok )
           => ExitsWith(1)
    /\ ( pc = "check_toolchain" /\ host_ok \cap CompilerPrograms = {} ) => ExitsWith(1)
    /\ ( pc = "generate" /\ _project_generator = "ninja" ) => ExitsWith(1)
    /\ ( /\ pc = "load_targets" /\ ncalls' = ncalls + 1 /\ last_call'.fn = "set_kind"
         /\ last_call'.args[1][1] \notin {"binary", "static", "shared"} ) => ExitsWith(1)
    /\ pc' = "aborted" => exitcode' = <<1>>
    /\ exitcode' = <<0>> => pc' = "exited" /\ MakefileComplete'
    /\ pc' \notin {"exited", "aborted"} => exitcode' = << >>

\* C27, as stated: the exit code is 2 after --version and after --help, 1
\* after an unknown command-line option or any fatal error (toolchain not
\* found, make not found, Ninja generator requested, unknown target kind),
\* and 0 only when the Makefile has been generated completely.
C27_ExitCodesAsStated == [][ExitCodeStep(2)]_vars

\* C27: the exit code is 2 after --version, 1 after --help, 1 after an
\* unknown command-line option or any fatal error (toolchain not found, make
\* not found, Ninja generator requested, unknown target kind), and 0 only
\* when the Makefile has been generated completely.
C27_ExitCodes == [][ExitCodeStep(1)]_vars

\* the Ninja generator was asked for, ninja is on the host, and the run has
\* ended where the generator is called
C27_Witness ==
    /\ pc = "aborted"
    /\ exitcode = <<1>>
    /\ _project_generator = "ninja"
    /\ "ninja" \in host_ok
    /\ argi = Len(argv)


-----------------------------------------------------------------------------
(* The named maps as a key-value store *)

MapNames == {"myMap", "other", "none"}
MapKeys  == {"name", "age", "gender", "email"}

\* the statements made so far on one key of one map, and the last of them
WritesTo(name, key) ==
    { i \in DOMAIN pure_in : pure_in[i].name = name /\ pure_in[i].key = key }
LastWrite(name, key) ==
    CHOOSE i \in WritesTo(name, key) : \A j \in WritesTo(name, key) : j <= i

\* the key is in the map: its last statement is a set
IsSet(name, key) ==
    WritesTo(name, key) # {} /\ pure_in[LastWrite(name, key)].op = "set"

\* the statement that put the key in: the first of the sets no remove follows
InsertedAt(name, key) ==
    CHOOSE i \in WritesTo(name, key) :
        /\ \A j \in WritesTo(name, key) : j >= i => pure_in[j].op = "set"
        /\ \A h \in WritesTo(name, key) :
               ( \A j \in WritesTo(name, key) : j >= h => pure_in[j].op = "set" ) => i <= h

\* what the store answers after the statements made so far
MapIsFaithful ==
    \A name \in MapNames :
        /\ \A key \in MapKeys :
               /\ _map_has(maps, name, key) = IsSet(name, key)
               /\ _map_get(maps, name, key) =
                      IF IsSet(name, key) THEN pure_in[LastWrite(name, key)].value
                      ELSE Undefined
        /\ (name \in DOMAIN maps) =
               (\E i \in DOMAIN pure_in : pure_in[i].name = name /\ pure_in[i].op = "set")
        /\ LET keys == _map_keys(maps, name)
           IN  /\ Range(keys) = { key \in MapKeys : IsSet(name, key) }
               /\ _map_count(maps, name) = Cardinality(Range(keys))
               /\ \A i, j \in DOMAIN keys :
                      i < j => InsertedAt(name, keys[i]) < InsertedAt(name, keys[j])

\* a statement on one key of one map leaves every other key and map alone
MapWriteIsLocal ==
    LET o == pure_in'[Len(pure_in')]
    IN  \A name \in MapNames : \A key \in MapKeys :
            <<name, key>> # <<o.name, o.key>>
                => /\ _map_has(maps', name, key) = _map_has(maps, name, key)
                   /\ _map_get(maps', name, key) = _map_get(maps, name, key)

\* C28: after _map_set(m, k, v), _map_get(m, k) returns v and _map_has(m, k)
\* is true until the next write to (m, k); for a key never set and for a map
\* never written _map_has is false and _map_get is undefined and no map is
\* created; a set or a remove on (m, k) changes no other key of m and no key
\* of another map; after _map_remove(m, k), _map_has(m, k) is false and the
\* keys that remain keep their insertion order.
C28_MapIsKeyValueStore ==
    [][MapWriteIsLocal /\ MapIsFaithful']_vars

\* name and age were set, name was removed and set again: it stands after age
C28_Witness ==
    /\ pc = "map_js"
    /\ Len(pure_in) = 4
    /\ pure_in[3] = MapOp("remove", "myMap", "name", Undefined)
    /\ _map_keys(maps, "myMap") = <<"age", "name">>
    /\ ~_map_has(maps, "myMap", "gender")


-----------------------------------------------------------------------------
(* The order of the library deps *)

\* the place of the first flag of a list that is the given one (0: none)
FlagAt(flags, flag) ==
    IF \E k \in DOMAIN flags : flags[k] = flag
    THEN CHOOSE k \in DOMAIN flags : flags[k] = flag /\ \A h \in 1..(k - 1) : flags[h] # flag
    ELSE 0

\* the list the library deps of a target are remembered as, once computed
ComputedLibrarydeps(tname) ==
    IF StoredLibrarydeps(tname) \in {Undefined, <<"__none__">>} THEN << >>
    ELSE StoredLibrarydeps(tname)

\* C29: over an acyclic deps graph, in the library deps computed for a target
\* every library stands before each library it depends on, directly or
\* transitively, and in the target's linker flags the -L/-l pair of a
\* library stands before the pair of each library it needs.
C29_DependentsBeforeDependencies ==
    \A tname \in DeclaredTargets :
        AcyclicDeps
        => LET librarydeps == ComputedLibrarydeps(tname)
           IN  /\ \A i, j \in DOMAIN librarydeps :
                      librarydeps[j] \in LibraryDepsOf(librarydeps[i]) => i < j
               /\ \A f \in EmittedFlags(tname, LinkFlagnames) :
                      \A i, j \in DOMAIN librarydeps :
                          librarydeps[j] \in LibraryDepsOf(librarydeps[i])
                          => LET flags == makefile[f].rhs
                                 at_i  == FlagAt(flags, "-l" \o librarydeps[i])
                                 at_j  == FlagAt(flags, "-l" \o librarydeps[j])
                             IN  /\ 1 < at_i /\ at_i < at_j - 1
                                 /\ startsWith(flags[at_i - 1], "-L")
                                 /\ startsWith(flags[at_j - 1], "-L")

\* app names a before b in its deps and b depends on a: b stands first in
\* app's library deps and in app's linker flags
C29_Witness ==
    /\ Declared("app", "add_deps") = <<"a", "b">>
    /\ Declared("b", "add_deps") = <<"a">>
    /\ StoredLibrarydeps("app") = <<"b", "a">>
    /\ \E f \in EmittedFlags("app", {"ldflags"}) :
           /\ 0 < FlagAt(makefile[f].rhs, "-lb")
           /\ FlagAt(makefile[f].rhs, "-lb") < FlagAt(makefile[f].rhs, "-la")


-----------------------------------------------------------------------------
(* Calls made while an option block is open *)

\* the step evaluates a script call made inside an option block
CallInOptionBlock == ncalls' = ncalls + 1 /\ _xmake_sh_option_current # ""

\* C30: while an option scope is open (after the block form of option(name),
\* before option_end()), no call changes any attribute of a target or of the
\* root scope, in either pass: add_ldflags, set_symbols, set_strip and
\* add_rpathdirs inside an option block add nothing to the current target or
\* to the root scope when the script is evaluated again to load the targets.
C30_OptionBlockLeavesTargetsAlone ==
    [][CallInOptionBlock => Store(maps', "targets") = Store(maps, "targets")]_vars

=============================================================================
